---- MODULE Spec2Model ----
(***************************************************************************)
(* Model of the IP detection core of myip (package internal/ip) and of    *)
(* the standard-library string and address functions it calls.            *)
(*                                                                         *)
(* A Go string is a sequence of one-character strings, so that splitting,  *)
(* trimming and address parsing are computed character by character.      *)
(* A net.IP is a sequence of bytes (0..255); the nil IP is <<>>.           *)
(***************************************************************************)
EXTENDS Integers, Sequences, FiniteSets, TLC

\* ------------------------------------------------------------------------
\* strings
\* ------------------------------------------------------------------------

\* s[from:to] of Go, with 0-based from (inclusive) and to (exclusive)
Slice(s, from, to) == SubSeq(s, from + 1, to)

\* s[from:]
SliceFrom(s, from) == SubSeq(s, from + 1, Len(s))

\* the 1-based position of the first c in s at or after i, or 0
RECURSIVE scanUp(_, _, _)
scanUp(s, c, i) ==
    IF i > Len(s) THEN 0 ELSE IF s[i] = c THEN i ELSE scanUp(s, c, i + 1)

\* the 1-based position of the last c in s at or before i, or 0
RECURSIVE scanDown(_, _, _)
scanDown(s, c, i) ==
    IF i < 1 THEN 0 ELSE IF s[i] = c THEN i ELSE scanDown(s, c, i - 1)

\* bytealg.IndexByteString: 0-based index of the first c in s, or -1
IndexByte(s, c) == scanUp(s, c, 1) - 1

\* bytealg.LastIndexByteString: 0-based index of the last c in s, or -1
LastIndexByte(s, c) == scanDown(s, c, Len(s)) - 1

\* the white space strings.TrimSpace removes (the ASCII part)
isSpace(c) == c \in {" ", "\t", "\n", "\r", "\f"}

\* the position of the first character of s at or after i that is no
\* white space, Len(s) + 1 when there is none
RECURSIVE trimStart(_, _)
trimStart(s, i) ==
    IF i <= Len(s) /\ isSpace(s[i]) THEN trimStart(s, i + 1) ELSE i

\* the position of the last character of s at or before j and at or after
\* start that is no white space, start - 1 when there is none
RECURSIVE trimStop(_, _, _)
trimStop(s, start, j) ==
    IF j >= start /\ isSpace(s[j]) THEN trimStop(s, start, j - 1) ELSE j

\* strings.TrimSpace: s without its leading and trailing white space
TrimSpace(s) ==
    LET start == trimStart(s, 1)
    IN  SubSeq(s, start, trimStop(s, start, Len(s)))

\* strings.Split(s, sep) for a one-character sep: the pieces between the
\* separators, in order; a string without sep gives one piece
RECURSIVE Split(_, _)
Split(s, sep) ==
    LET i == IndexByte(s, sep)
    IN  IF i < 0 THEN <<s>>
        ELSE <<Slice(s, 0, i)>> \o Split(SliceFrom(s, i + 1), sep)

\* ------------------------------------------------------------------------
\* net/netip: parsing of address literals
\* ------------------------------------------------------------------------

DecDigits == <<"0", "1", "2", "3", "4", "5", "6", "7", "8", "9">>
HexLower == <<"a", "b", "c", "d", "e", "f">>
HexUpper == <<"A", "B", "C", "D", "E", "F">>

\* c - '0' for '0' <= c <= '9'; c - 'a' + 10 and c - 'A' + 10 for the letters
hexTable ==
    [c \in {DecDigits[i] : i \in 1..10} \cup {HexLower[i] : i \in 1..6}
            \cup {HexUpper[i] : i \in 1..6} |->
        IF \E i \in 1..10 : DecDigits[i] = c
        THEN (CHOOSE i \in 1..10 : DecDigits[i] = c) - 1
        ELSE (CHOOSE i \in 1..6 : HexLower[i] = c \/ HexUpper[i] = c) + 9]

isHex(c) == c \in DOMAIN hexTable
isDigit(c) == isHex(c) /\ hexTable[c] < 10

digitVal(c) == hexTable[c]
hexVal(c) == hexTable[c]

\* the result of a failed parse: the nil IP
NilIP == <<>>

\* netip.parseIPv4Fields: the loop over the characters of a dotted quad.
\* fields are the octets closed so far, val and digLen the octet being read.
RECURSIVE parseIPv4Loop(_, _, _, _, _)
parseIPv4Loop(s, i, fields, val, digLen) ==
    IF i > Len(s)
    THEN IF Len(fields) < 3 THEN NilIP            \* address too short
         ELSE Append(fields, val)
    ELSE
      LET c == s[i] IN
      IF isDigit(c)
      THEN IF digLen = 1 /\ val = 0 THEN NilIP    \* octet with leading zero
           ELSE LET v == val * 10 + digitVal(c)
                IN  IF v > 255 THEN NilIP         \* value > 255
                    ELSE parseIPv4Loop(s, i + 1, fields, v, digLen + 1)
      ELSE IF c = "."
      THEN IF i = 1 \/ i = Len(s) \/ s[i - 1] = "." THEN NilIP  \* empty field
           ELSE IF Len(fields) = 3 THEN NilIP     \* address too long
           ELSE parseIPv4Loop(s, i + 1, Append(fields, val), 0, 0)
      ELSE NilIP                                  \* unexpected character

\* netip.parseIPv4Fields: the four octets of s, or nil
parseIPv4Fields(s) == parseIPv4Loop(s, 1, <<>>, 0, 0)

\* the number of hexadecimal digits s has from position i on, without a gap
RECURSIVE hexRunFrom(_, _)
hexRunFrom(s, i) ==
    IF i <= Len(s) /\ isHex(s[i]) THEN 1 + hexRunFrom(s, i + 1) ELSE 0

\* the number of leading hexadecimal digits of s
hexRun(s) == hexRunFrom(s, 1)

\* the value of the hexadecimal digits s[1..n]
RECURSIVE hexAcc(_, _)
hexAcc(s, n) == IF n = 0 THEN 0 ELSE hexAcc(s, n - 1) * 16 + hexVal(s[n])

Zeros(n) == [j \in 1..n |-> 0]

\* netip.parseIPv6, the end: all of the string must be used, and a missing
\* tail is filled in at the ellipsis, which must stand for at least one group
parseIPv6Finish(s, ip, ellipsis) ==
    IF s # <<>> THEN NilIP                        \* trailing garbage
    ELSE IF Len(ip) < 16
    THEN IF ellipsis < 0 THEN NilIP               \* address too short
         ELSE SubSeq(ip, 1, ellipsis) \o Zeros(16 - Len(ip))
                 \o SubSeq(ip, ellipsis + 1, Len(ip))
    ELSE IF ellipsis >= 0 THEN NilIP              \* :: expands to nothing
    ELSE ip

\* netip.parseIPv6, the loop "for i < 16": ip holds the i bytes parsed so
\* far, s the rest of the input, ellipsis the byte position of "::" or -1
RECURSIVE parseIPv6Loop(_, _, _)
parseIPv6Loop(s, ip, ellipsis) ==
    IF Len(ip) >= 16 THEN parseIPv6Finish(s, ip, ellipsis)
    ELSE
      LET off == hexRun(s)
          acc == hexAcc(s, off)
          i   == Len(ip)
      IN
      IF off > 4 THEN NilIP                       \* more than 4 digits
      ELSE IF off = 0 THEN NilIP                  \* no digit in the group
      ELSE IF off < Len(s) /\ s[off + 1] = "."
      THEN \* a trailing dotted quad
           IF ellipsis < 0 /\ i # 12 THEN NilIP
           ELSE IF i + 4 > 16 THEN NilIP
           ELSE LET v4 == parseIPv4Fields(s)
                IN  IF v4 = NilIP THEN NilIP
                    ELSE parseIPv6Finish(<<>>, ip \o v4, ellipsis)
      ELSE
        LET ip2 == ip \o <<acc \div 256, acc % 256>>
            s2  == SliceFrom(s, off)
        IN
        IF s2 = <<>> THEN parseIPv6Finish(s2, ip2, ellipsis)
        ELSE IF s2[1] # ":" THEN NilIP            \* want a colon
        ELSE IF Len(s2) = 1 THEN NilIP            \* colon at the end
        ELSE
          LET s3 == SliceFrom(s2, 1) IN
          IF s3[1] = ":"
          THEN IF ellipsis >= 0 THEN NilIP        \* a second ::
               ELSE LET s4 == SliceFrom(s3, 1)
                    IN  IF s4 = <<>> THEN parseIPv6Finish(s4, ip2, Len(ip2))
                        ELSE parseIPv6Loop(s4, ip2, Len(ip2))
          ELSE parseIPv6Loop(s3, ip2, ellipsis)

\* netip.parseIPv6 as net.ParseIP uses it: a literal with a zone ("%") is
\* either malformed or has a zone, and net.parseIP rejects both
parseIPv6(s) ==
    IF IndexByte(s, "%") >= 0 THEN NilIP
    ELSE IF Len(s) >= 2 /\ s[1] = ":" /\ s[2] = ":"
    THEN IF Len(s) = 2 THEN Zeros(16)
         ELSE parseIPv6Loop(SliceFrom(s, 2), <<>>, 0)
    ELSE parseIPv6Loop(s, <<>>, -1)

\* the prefix of an IPv4 address in its 16-byte form (net.v4InV6Prefix)
v4InV6Prefix == <<0, 0, 0, 0, 0, 0, 0, 0, 0, 0, 255, 255>>

\* netip.parseIPv4 followed by Addr.As16
parseIPv4(s) ==
    LET f == parseIPv4Fields(s)
    IN  IF f = NilIP THEN NilIP ELSE v4InV6Prefix \o f

\* netip.ParseAddr: the first of '.', ':' and '%' in s decides the syntax
RECURSIVE ParseAddr(_, _)
ParseAddr(s, i) ==
    IF i > Len(s) THEN NilIP                      \* unable to parse IP
    ELSE IF s[i] = "." THEN parseIPv4(s)
    ELSE IF s[i] = ":" THEN parseIPv6(s)
    ELSE IF s[i] = "%" THEN NilIP                 \* missing IPv6 address
    ELSE ParseAddr(s, i + 1)

\* net.ParseIP: the 16-byte form of the address s denotes, or nil
ParseIP(s) == ParseAddr(s, 1)

\* net.IP.To4: the 4-byte form of an IPv4 address, or nil
To4(ip) ==
    IF Len(ip) = 4 THEN ip
    ELSE IF Len(ip) = 16 /\ SubSeq(ip, 1, 12) = v4InV6Prefix THEN SubSeq(ip, 13, 16)
    ELSE NilIP

\* ------------------------------------------------------------------------
\* net: networks and host:port
\* ------------------------------------------------------------------------

\* a & b on bytes
RECURSIVE And8(_, _)
And8(a, b) ==
    IF a = 0 \/ b = 0 THEN 0
    ELSE 2 * And8(a \div 2, b \div 2) + (IF a % 2 = 1 /\ b % 2 = 1 THEN 1 ELSE 0)

\* net.CIDRMask(ones, bits): ones 1-bits followed by 0-bits, in bits/8 bytes
CIDRMask(ones, bits) ==
    [j \in 1..(bits \div 8) |->
        IF ones >= 8 * j THEN 255
        ELSE IF ones <= 8 * (j - 1) THEN 0
        ELSE 256 - 2 ^ (8 * j - ones)]

\* net.dtoi on a whole string: its decimal value, or -1 when it is empty or
\* has a character that is no digit
RECURSIVE dtoi(_)
dtoi(s) ==
    IF s = <<>> THEN -1
    ELSE IF ~isDigit(s[Len(s)]) THEN -1
    ELSE IF Len(s) = 1 THEN digitVal(s[1])
    ELSE LET hi == dtoi(SubSeq(s, 1, Len(s) - 1))
         IN  IF hi < 0 THEN -1 ELSE hi * 10 + digitVal(s[Len(s)])

\* the result of a failed net.ParseCIDR
NilNet == [IP |-> NilIP, Mask |-> <<>>]

\* net.ParseCIDR: the network of "address/length": the address with the
\* bits after the prefix cleared, and the mask, both 4 bytes long for an
\* IPv4 literal and 16 bytes long for an IPv6 literal
ParseCIDR(s) ==
    LET cut == IndexByte(s, "/") IN
    IF cut < 0 THEN NilNet
    ELSE
      LET addr   == Slice(s, 0, cut)
          ip16   == ParseIP(addr)
          isV4   == IndexByte(addr, ":") < 0
          bitLen == IF isV4 THEN 32 ELSE 128
          n      == dtoi(SliceFrom(s, cut + 1))
      IN
      IF ip16 = NilIP \/ n < 0 \/ n > bitLen THEN NilNet
      ELSE
        LET m  == CIDRMask(n, bitLen)
            ip == IF isV4 THEN To4(ip16) ELSE ip16
        IN  [IP |-> [j \in 1..Len(ip) |-> And8(ip[j], m[j])], Mask |-> m]

\* parseCIDR: the network of a CIDR literal; a malformed literal is fatal
\* (log.Fatalf), which the model shows as the nil network
parseCIDR(cidr) == ParseCIDR(cidr)

\* net.IPNet.Contains: ip is taken in its 4-byte form when it has one, must
\* be as long as the network address, and must agree with it under the mask
Contains(n, ip) ==
    LET x == IF To4(ip) # NilIP THEN To4(ip) ELSE ip IN
    /\ Len(x) = Len(n.IP)
    /\ \A j \in 1..Len(x) : And8(n.IP[j], n.Mask[j]) = And8(x[j], n.Mask[j])

\* net.SplitHostPort: [err, host]; the port is not used by the callers
SplitHostPort(hostport) ==
    LET i    == LastIndexByte(hostport, ":")
        fail == [err |-> TRUE, host |-> <<>>]
    IN
    IF i < 0 THEN fail                                   \* missing port
    ELSE
      LET bracket == hostport[1] = "["
          end     == IndexByte(hostport, "]")
          host    == IF bracket THEN Slice(hostport, 1, end) ELSE Slice(hostport, 0, i)
          j       == IF bracket THEN 1 ELSE 0
          k       == IF bracket THEN end + 1 ELSE 0
      IN
      IF bracket /\ end < 0 THEN fail                    \* missing ']'
      ELSE IF bracket /\ end + 1 # i THEN fail           \* missing port, too many colons
      ELSE IF ~bracket /\ IndexByte(host, ":") >= 0 THEN fail   \* too many colons
      ELSE IF IndexByte(SliceFrom(hostport, j), "[") >= 0 THEN fail
      ELSE IF IndexByte(SliceFrom(hostport, k), "]") >= 0 THEN fail
      ELSE [err |-> FALSE, host |-> host]

\* the values of a header joined the way a list is written
RECURSIVE joinValues(_)
joinValues(values) ==
    IF values = <<>> THEN <<>>
    ELSE IF Len(values) = 1 THEN values[1]
    ELSE values[1] \o <<",", " ">> \o joinValues(Tail(values))

\* Get that gives all the values of the header, joined
GetJoined(header, key) == joinValues(header[key])

\* http.Header.Get: the first value of the header, "" when it has none
Get(header, key) == IF header[key] = <<>> THEN <<>> ELSE header[key][1]

\* ------------------------------------------------------------------------
\* package ip: the tables
\* ------------------------------------------------------------------------

\* Header priority order for IP detection
headerPriorityInit ==
    << "CF-Connecting-IP", "True-Client-IP", "X-Real-IP", "X-Forwarded-For",
       "X-Client-IP", "X-Cluster-Client-IP", "X-Forwarded", "Forwarded-For",
       "Forwarded" >>

\* privateIPRanges with 172.16.0.0/16 in the place of 172.16.0.0/12
privateIPRangesShort ==
    << parseCIDR(<<"1", "0", ".", "0", ".", "0", ".", "0", "/", "8">>),
       parseCIDR(<<"1", "7", "2", ".", "1", "6", ".", "0", ".", "0", "/", "1", "6">>),
       parseCIDR(<<"1", "9", "2", ".", "1", "6", "8", ".", "0", ".", "0", "/", "1", "6">>),
       parseCIDR(<<"1", "6", "9", ".", "2", "5", "4", ".", "0", ".", "0", "/", "1", "6">>),
       parseCIDR(<<"1", "2", "7", ".", "0", ".", "0", ".", "0", "/", "8">>) >>

\* Private IP ranges (IPv4): RFC 1918, RFC 3927, RFC 5735
privateIPRangesInit ==
    << parseCIDR(<<"1", "0", ".", "0", ".", "0", ".", "0", "/", "8">>),
       parseCIDR(<<"1", "7", "2", ".", "1", "6", ".", "0", ".", "0", "/", "1", "2">>),
       parseCIDR(<<"1", "9", "2", ".", "1", "6", "8", ".", "0", ".", "0", "/", "1", "6">>),
       parseCIDR(<<"1", "6", "9", ".", "2", "5", "4", ".", "0", ".", "0", "/", "1", "6">>),
       parseCIDR(<<"1", "2", "7", ".", "0", ".", "0", ".", "0", "/", "8">>) >>

\* Private IPv6 ranges: RFC 4193, RFC 4291 link-local and loopback
privateIPv6RangesInit ==
    << parseCIDR(<<"f", "c", "0", "0", ":", ":", "/", "7">>),
       parseCIDR(<<"f", "e", "8", "0", ":", ":", "/", "1", "0">>),
       parseCIDR(<<":", ":", "1", "/", "1", "2", "8">>) >>

\* ------------------------------------------------------------------------
\* state
\* ------------------------------------------------------------------------

\* the CIDR literals of the two tables as the program text has them
SourceCIDRs ==
    [privateIPRanges |->
        << <<"1", "0", ".", "0", ".", "0", ".", "0", "/", "8">>,
           <<"1", "7", "2", ".", "1", "6", ".", "0", ".", "0", "/", "1", "2">>,
           <<"1", "9", "2", ".", "1", "6", "8", ".", "0", ".", "0", "/", "1", "6">>,
           <<"1", "6", "9", ".", "2", "5", "4", ".", "0", ".", "0", "/", "1", "6">>,
           <<"1", "2", "7", ".", "0", ".", "0", ".", "0", "/", "8">> >>,
     privateIPv6Ranges |->
        << <<"f", "c", "0", "0", ":", ":", "/", "7">>,
           <<"f", "e", "8", "0", ":", ":", "/", "1", "0">>,
           <<":", ":", "1", "/", "1", "2", "8">> >>]

VARIABLES
    proc,               \* the process: the package variable whose initialiser runs
                        \* next, "serving" once all have run, "exited" after log.Fatalf
    cidrs,              \* the program text: the CIDR literals of the two tables
    headerPriority,     \* package ip: the header names, most trusted first
    privateIPRanges,    \* package ip: the private IPv4 networks
    privateIPv6Ranges,  \* package ip: the private IPv6 networks
    Header,             \* the request: header name -> its values, in order
    RemoteAddr,         \* the request: the peer address, as the transport gives it
    Query,              \* the request: query parameter name -> its values, in order
    w,                  \* the response a handler has written
    arg,                \* the string a direct call of IsValid or IsPrivate is given
    slice,              \* the list a call of RemoveDuplicates is given
    calls,              \* the calls of GetInfo that run at the same time: of each
                        \* its request r, its place pc, its local variables and info,
                        \* the record it returns
    op,                 \* the operation that has run on the request, "" before
    ret                 \* what the operation returned

vars == <<proc, cidrs, headerPriority, privateIPRanges, privateIPv6Ranges,
          Header, RemoteAddr, Query, w, arg, slice, calls, op, ret>>

\* the request *http.Request r as the operations read it
Request == [Header |-> Header, RemoteAddr |-> RemoteAddr]

\* the request as the handlers read it
HTTPRequest == [Header |-> Header, RemoteAddr |-> RemoteAddr, Query |-> Query]

\* ------------------------------------------------------------------------
\* package ip: the operations
\* ------------------------------------------------------------------------

\* IsValid checks if the given string is a valid IP address
IsValid(ip) == ParseIP(ip) # NilIP

\* IsPrivate: the loop over a table of networks
RECURSIVE inRanges(_, _, _)
inRanges(ranges, parsedIP, k) ==
    IF k > Len(ranges) THEN FALSE
    ELSE IF Contains(ranges[k], parsedIP) THEN TRUE
    ELSE inRanges(ranges, parsedIP, k + 1)

\* IsPrivate with the port and the brackets taken off its argument first
IsPrivateOfHost(ip) ==
    LET hp       == SplitHostPort(ip)
        host     == IF hp.err THEN ip ELSE hp.host
        parsedIP == ParseIP(host)
    IN  IF parsedIP = NilIP THEN FALSE
        ELSE IF To4(parsedIP) # NilIP THEN inRanges(privateIPRanges, parsedIP, 1)
        ELSE inRanges(privateIPv6Ranges, parsedIP, 1)

\* IsPrivate that takes the table by the notation: the IPv6 table for
\* every address written with colons
IsPrivateByNotation(ip) ==
    IF ip = <<>> THEN FALSE
    ELSE
      LET parsedIP == ParseIP(ip) IN
      IF parsedIP = NilIP THEN FALSE
      ELSE IF IndexByte(ip, ":") < 0 THEN inRanges(privateIPRanges, parsedIP, 1)
      ELSE inRanges(privateIPv6Ranges, parsedIP, 1)

\* IsPrivate checks if the given IP address is in a private range
IsPrivate(ip) ==
    IF ip = <<>> THEN FALSE
    ELSE
      LET parsedIP == ParseIP(ip) IN
      IF parsedIP = NilIP THEN FALSE
      ELSE IF To4(parsedIP) # NilIP THEN inRanges(privateIPRanges, parsedIP, 1)
      ELSE inRanges(privateIPv6Ranges, parsedIP, 1)

\* what the scan of a list of pieces or of the headers found
NotFound == [found |-> FALSE, ip |-> <<>>, via |-> ""]

\* firstValid with the list read from its end: the last valid piece
RECURSIVE lastValid(_, _)
lastValid(ips, k) ==
    IF k > Len(ips) THEN NotFound
    ELSE LET rest == lastValid(ips, k + 1)
             ip   == TrimSpace(ips[k])
         IN  IF rest.found THEN rest
             ELSE IF IsValid(ip) THEN [found |-> TRUE, ip |-> ip, via |-> ""]
             ELSE NotFound

\* ExtractClientIP, the inner loop: the first piece of ips, from the k-th
\* on, that is valid once trimmed
RECURSIVE firstValid(_, _)
firstValid(ips, k) ==
    IF k > Len(ips) THEN NotFound
    ELSE LET ip == TrimSpace(ips[k])
         IN  IF IsValid(ip) THEN [found |-> TRUE, ip |-> ip, via |-> ""]
             ELSE firstValid(ips, k + 1)

\* ExtractClientIP, the outer loop: the headers from the h-th on
RECURSIVE scanHeaders(_, _)
scanHeaders(r, h) ==
    IF h > Len(headerPriority) THEN NotFound
    ELSE
      LET header == headerPriority[h]
          value  == Get(r.Header, header)
          hit    == IF value # <<>> THEN firstValid(Split(value, ","), 1) ELSE NotFound
      IN  IF hit.found THEN [hit EXCEPT !.via = header]
          ELSE scanHeaders(r, h + 1)

\* scanHeaders with the table read from its end
RECURSIVE scanHeadersDown(_, _)
scanHeadersDown(r, h) ==
    IF h < 1 THEN NotFound
    ELSE
      LET header == headerPriority[h]
          value  == Get(r.Header, header)
          hit    == IF value # <<>> THEN firstValid(Split(value, ","), 1) ELSE NotFound
      IN  IF hit.found THEN [hit EXCEPT !.via = header]
          ELSE scanHeadersDown(r, h - 1)

\* ExtractClientIP with the lowest priority first
ExtractClientIPLowestFirst(r) ==
    LET hit == scanHeadersDown(r, Len(headerPriority)) IN
    IF hit.found THEN [ip |-> hit.ip, via |-> hit.via]
    ELSE
      LET hp == SplitHostPort(r.RemoteAddr) IN
      IF hp.err THEN [ip |-> r.RemoteAddr, via |-> "RemoteAddr"]
      ELSE [ip |-> hp.host, via |-> "RemoteAddr"]

\* ExtractClientIP without the split of the peer address
ExtractClientIPRawPeer(r) ==
    LET hit == scanHeaders(r, 1) IN
    IF hit.found THEN [ip |-> hit.ip, via |-> hit.via]
    ELSE [ip |-> r.RemoteAddr, via |-> "RemoteAddr"]

\* ExtractClientIP with the error of the split ignored: the host of a
\* failed split is the empty string
ExtractClientIPIgnoreErr(r) ==
    LET hit == scanHeaders(r, 1) IN
    IF hit.found THEN [ip |-> hit.ip, via |-> hit.via]
    ELSE [ip |-> SplitHostPort(r.RemoteAddr).host, via |-> "RemoteAddr"]

\* ExtractClientIP that gives up, with no address and no label, when the
\* peer address does not split into host and port
ExtractClientIPOrNothing(r) ==
    LET hit == scanHeaders(r, 1) IN
    IF hit.found THEN [ip |-> hit.ip, via |-> hit.via]
    ELSE
      LET hp == SplitHostPort(r.RemoteAddr) IN
      IF hp.err THEN [ip |-> <<>>, via |-> ""]
      ELSE [ip |-> hp.host, via |-> "RemoteAddr"]

\* firstValid that returns the piece as it stands in the list, with the
\* blanks around it
RECURSIVE firstValidRaw(_, _)
firstValidRaw(ips, k) ==
    IF k > Len(ips) THEN NotFound
    ELSE IF IsValid(TrimSpace(ips[k])) THEN [found |-> TRUE, ip |-> ips[k], via |-> ""]
    ELSE firstValidRaw(ips, k + 1)

\* scanHeaders over the pieces as they stand
RECURSIVE scanHeadersRaw(_, _)
scanHeadersRaw(r, h) ==
    IF h > Len(headerPriority) THEN NotFound
    ELSE
      LET header == headerPriority[h]
          value  == Get(r.Header, header)
          hit    == IF value # <<>> THEN firstValidRaw(Split(value, ","), 1) ELSE NotFound
      IN  IF hit.found THEN [hit EXCEPT !.via = header]
          ELSE scanHeadersRaw(r, h + 1)

\* ExtractClientIP that returns the piece of the header untrimmed
ExtractClientIPUntrimmed(r) ==
    LET hit == scanHeadersRaw(r, 1) IN
    IF hit.found THEN [ip |-> hit.ip, via |-> hit.via]
    ELSE
      LET hp == SplitHostPort(r.RemoteAddr) IN
      IF hp.err THEN [ip |-> r.RemoteAddr, via |-> "RemoteAddr"]
      ELSE [ip |-> hp.host, via |-> "RemoteAddr"]

\* scanHeaders that ends at the first header with a value, valid or not
RECURSIVE scanHeadersStop(_, _)
scanHeadersStop(r, h) ==
    IF h > Len(headerPriority) THEN NotFound
    ELSE
      LET header == headerPriority[h]
          value  == Get(r.Header, header)
          hit    == firstValid(Split(value, ","), 1)
      IN  IF value # <<>> THEN [hit EXCEPT !.via = header]
          ELSE scanHeadersStop(r, h + 1)

\* ExtractClientIP that falls back to the peer address when the first
\* header with a value holds no valid entry
ExtractClientIPStopAtPresent(r) ==
    LET hit == scanHeadersStop(r, 1) IN
    IF hit.found THEN [ip |-> hit.ip, via |-> hit.via]
    ELSE
      LET hp == SplitHostPort(r.RemoteAddr) IN
      IF hp.err THEN [ip |-> r.RemoteAddr, via |-> "RemoteAddr"]
      ELSE [ip |-> hp.host, via |-> "RemoteAddr"]

\* ExtractClientIP that reads the priority headers only of a request
\* with CF-Ray, and takes the peer address for every other request
ExtractClientIPTrustRay(r) ==
    LET hit == scanHeaders(r, 1) IN
    IF hit.found /\ Get(r.Header, "CF-Ray") # <<>> THEN [ip |-> hit.ip, via |-> hit.via]
    ELSE
      LET hp == SplitHostPort(r.RemoteAddr) IN
      IF hp.err THEN [ip |-> r.RemoteAddr, via |-> "RemoteAddr"]
      ELSE [ip |-> hp.host, via |-> "RemoteAddr"]

\* ExtractClientIP extracts the client IP from request headers with
\* detection method: [ip, via]
ExtractClientIP(r) ==
    LET hit == scanHeaders(r, 1) IN
    IF hit.found THEN [ip |-> hit.ip, via |-> hit.via]
    ELSE
      LET hp == SplitHostPort(r.RemoteAddr) IN
      IF hp.err THEN [ip |-> r.RemoteAddr, via |-> "RemoteAddr"]
      ELSE [ip |-> hp.host, via |-> "RemoteAddr"]

\* FindIPv4, the inner loop: the first piece of ips, from the k-th on,
\* that is valid once trimmed and has a 4-byte form
RECURSIVE firstIPv4(_, _)
firstIPv4(ips, k) ==
    IF k > Len(ips) THEN NotFound
    ELSE LET ip       == TrimSpace(ips[k])
             parsedIP == ParseIP(ip)
         IN  IF IsValid(ip) /\ parsedIP # NilIP /\ To4(parsedIP) # NilIP
             THEN [found |-> TRUE, ip |-> ip, via |-> ""]
             ELSE firstIPv4(ips, k + 1)

\* FindIPv4, the outer loop: the headers from the h-th on
RECURSIVE scanIPv4(_, _)
scanIPv4(r, h) ==
    IF h > Len(headerPriority) THEN NotFound
    ELSE
      LET header == headerPriority[h]
          value  == Get(r.Header, header)
          hit    == IF value # <<>> THEN firstIPv4(Split(value, ","), 1) ELSE NotFound
      IN  IF hit.found THEN [hit EXCEPT !.via = header]
          ELSE scanIPv4(r, h + 1)

\* FindIPv4 that looks no further than the first valid entry: the address
\* ExtractClientIP finds in the headers if it has a 4-byte form, else the
\* peer host
FindIPv4StopAtFirstValid(r) ==
    LET hit      == scanHeaders(r, 1)
        hp       == SplitHostPort(r.RemoteAddr)
        host     == IF hp.err THEN r.RemoteAddr ELSE hp.host
        parsedIP == ParseIP(host)
    IN  IF hit.found /\ To4(ParseIP(hit.ip)) # NilIP THEN hit.ip
        ELSE IF IsValid(host) /\ parsedIP # NilIP /\ To4(parsedIP) # NilIP THEN host
        ELSE <<>>

\* FindIPv4 that takes a valid peer host of either family
FindIPv4PeerAnyFamily(r) ==
    LET hit == scanIPv4(r, 1) IN
    IF hit.found THEN hit.ip
    ELSE
      LET hp   == SplitHostPort(r.RemoteAddr)
          host == IF hp.err THEN r.RemoteAddr ELSE hp.host
      IN  IF IsValid(host) THEN host ELSE <<>>

\* FindIPv4 with the host of the split also when the split fails, which
\* is the empty string then
FindIPv4HostOfSplit(r) ==
    LET hit == scanIPv4(r, 1) IN
    IF hit.found THEN hit.ip
    ELSE
      LET host     == SplitHostPort(r.RemoteAddr).host
          parsedIP == ParseIP(host)
      IN  IF IsValid(host) /\ parsedIP # NilIP /\ To4(parsedIP) # NilIP
          THEN host
          ELSE <<>>

\* FindIPv4 finds the first valid IPv4 address from the request
FindIPv4(r) ==
    LET hit == scanIPv4(r, 1) IN
    IF hit.found THEN hit.ip
    ELSE
      \* Fall back to RemoteAddr
      LET hp       == SplitHostPort(r.RemoteAddr)
          host     == IF hp.err THEN r.RemoteAddr ELSE hp.host
          parsedIP == ParseIP(host)
      IN  IF IsValid(host) /\ parsedIP # NilIP /\ To4(parsedIP) # NilIP
          THEN host
          ELSE <<>>

\* firstIPv6 without the test of the family
firstIPv6AnyFamily(ips, k) == firstValid(ips, k)

\* FindIPv6, the inner loop: the first piece of ips, from the k-th on,
\* that is valid once trimmed and has no 4-byte form
RECURSIVE firstIPv6(_, _)
firstIPv6(ips, k) ==
    IF k > Len(ips) THEN NotFound
    ELSE LET ip       == TrimSpace(ips[k])
             parsedIP == ParseIP(ip)
         IN  IF IsValid(ip) /\ parsedIP # NilIP /\ To4(parsedIP) = NilIP
             THEN [found |-> TRUE, ip |-> ip, via |-> ""]
             ELSE firstIPv6(ips, k + 1)

\* FindIPv6, the outer loop: the headers from the h-th on
RECURSIVE scanIPv6(_, _)
scanIPv6(r, h) ==
    IF h > Len(headerPriority) THEN NotFound
    ELSE
      LET header == headerPriority[h]
          value  == Get(r.Header, header)
          hit    == IF value # <<>> THEN firstIPv6(Split(value, ","), 1) ELSE NotFound
      IN  IF hit.found THEN [hit EXCEPT !.via = header]
          ELSE scanIPv6(r, h + 1)

\* FindIPv6 that takes the peer host unchecked
FindIPv6PeerUnchecked(r) ==
    LET hit == scanIPv6(r, 1) IN
    IF hit.found THEN hit.ip
    ELSE
      LET hp == SplitHostPort(r.RemoteAddr)
      IN  IF hp.err THEN r.RemoteAddr ELSE hp.host

\* FindIPv6 finds the first valid IPv6 address from the request
FindIPv6(r) ==
    LET hit == scanIPv6(r, 1) IN
    IF hit.found THEN hit.ip
    ELSE
      \* Fall back to RemoteAddr
      LET hp       == SplitHostPort(r.RemoteAddr)
          host     == IF hp.err THEN r.RemoteAddr ELSE hp.host
          parsedIP == ParseIP(host)
      IN  IF IsValid(host) /\ parsedIP # NilIP /\ To4(parsedIP) = NilIP
          THEN host
          ELSE <<>>

\* IsCloudflareRequest without the look at CF-Ray
IsCloudflareRequestNoRay(r) ==
    \/ Get(r.Header, "CF-Connecting-IP") # <<>>
    \/ Get(r.Header, "True-Client-IP") # <<>>

\* IsCloudflareRequest with the look at CF-Ray alone
IsCloudflareRequestRayOnly(r) == Get(r.Header, "CF-Ray") # <<>>

\* IsCloudflareRequest checks if the request comes through Cloudflare
IsCloudflareRequest(r) ==
    \/ Get(r.Header, "CF-Connecting-IP") # <<>>
    \/ Get(r.Header, "CF-Ray") # <<>>
    \/ Get(r.Header, "True-Client-IP") # <<>>

\* GetInfo with IsPrivate applied to the IPv4 address found
GetInfoPrivateOfIPv4(r) ==
    LET c == ExtractClientIP(r)
        ipv4 == FindIPv4(r)
    IN
    [ClientIP     |-> c.ip,
     DetectedVia  |-> c.via,
     IPv4Address  |-> ipv4,
     IPv6Address  |-> FindIPv6(r),
     IsPrivateIP  |-> IsPrivate(ipv4),
     IsCloudflare |-> IsCloudflareRequest(r),
     UserAgent    |-> Get(r.Header, "User-Agent")]

\* GetInfo with the two family fields taken from the peer address alone
GetInfoFamiliesOfPeer(r) ==
    LET c    == ExtractClientIP(r)
        peer == [r EXCEPT !.Header = [name \in DOMAIN r.Header |-> <<>>]]
    IN
    [ClientIP     |-> c.ip,
     DetectedVia  |-> c.via,
     IPv4Address  |-> FindIPv4(peer),
     IPv6Address  |-> FindIPv6(peer),
     IsPrivateIP  |-> IsPrivate(c.ip),
     IsCloudflare |-> IsCloudflareRequest(r),
     UserAgent    |-> Get(r.Header, "User-Agent")]

\* GetInfo gets comprehensive IP information (the Timestamp, read from the
\* clock, is left out)
GetInfo(r) ==
    LET c == ExtractClientIP(r) IN
    [ClientIP     |-> c.ip,
     DetectedVia  |-> c.via,
     IPv4Address  |-> FindIPv4(r),
     IPv6Address  |-> FindIPv6(r),
     IsPrivateIP  |-> IsPrivate(c.ip),
     IsCloudflare |-> IsCloudflareRequest(r),
     UserAgent    |-> Get(r.Header, "User-Agent")]

\* a []string: nil, or a list of strings that may be empty
NilSlice == [nil |-> TRUE, items |-> <<>>]

\* the slice of the strings items, not nil
SliceOf(items) == [nil |-> FALSE, items |-> items]

\* RemoveDuplicates, the loop: the items from the i-th on, by the map seen
\* (the set of its keys set to true) and the result so far
RECURSIVE removeLoop(_, _, _, _)
removeLoop(items, i, seen, result) ==
    IF i > Len(items) THEN result
    ELSE IF items[i] \notin seen
         THEN removeLoop(items, i + 1, seen \cup {items[i]}, Append(result, items[i]))
         ELSE removeLoop(items, i + 1, seen, result)

\* RemoveDuplicates that keeps the last of equal items, not the first
RemoveDuplicatesKeepLast(s) ==
    IF Len(s.items) = 0 THEN s
    ELSE
      LET n == Len(s.items)
          backwards == removeLoop([i \in 1..n |-> s.items[n + 1 - i]], 1, {}, <<>>)
          m == Len(backwards)
      IN  SliceOf([i \in 1..m |-> backwards[m + 1 - i]])

\* RemoveDuplicates that puts each new item in front of the result
RECURSIVE removeLoopFront(_, _, _, _)
removeLoopFront(items, i, seen, result) ==
    IF i > Len(items) THEN result
    ELSE IF items[i] \notin seen
         THEN removeLoopFront(items, i + 1, seen \cup {items[i]}, <<items[i]>> \o result)
         ELSE removeLoopFront(items, i + 1, seen, result)

RemoveDuplicatesFront(s) ==
    IF Len(s.items) = 0 THEN s
    ELSE SliceOf(removeLoopFront(s.items, 1, {}, <<>>))

\* RemoveDuplicates without the return of an empty argument as it is
RemoveDuplicatesAlwaysMake(s) == SliceOf(removeLoop(s.items, 1, {}, <<>>))

\* RemoveDuplicates removes duplicate strings from a slice while preserving
\* order
RemoveDuplicates(s) ==
    IF Len(s.items) = 0 THEN s
    ELSE SliceOf(removeLoop(s.items, 1, {}, <<>>))

\* ------------------------------------------------------------------------
\* package handlers
\* ------------------------------------------------------------------------

\* httptest.NewRecorder: a response with no status, no Content-Type and no
\* body written
NewRecorder == [Code |-> 0, ContentType |-> "", Body |-> <<>>, Broken |-> FALSE]

\* the response of a connection whose writes fail
BrokenWriter == [NewRecorder EXCEPT !.Broken = TRUE]

\* the query of a URL without parameters
NoQuery == [format |-> <<>>, callback |-> <<>>]

\* url.Values.Get: the first value of the parameter, "" when it has none
QueryGet(query, key) == IF query[key] = <<>> THEN <<>> ELSE query[key][1]

\* the response writer -----------------------------------------------------

\* http.ResponseWriter.WriteHeader: the status is set once
WriteHeader(rw, code) == IF rw.Code = 0 THEN [rw EXCEPT !.Code = code] ELSE rw

\* http.ResponseWriter.Write: the first write sends the status 200 when
\* none is set, then the bytes go to the body, or the write fails
Write(rw, b) ==
    IF rw.Broken THEN WriteHeader(rw, 200)
    ELSE [WriteHeader(rw, 200) EXCEPT !.Body = rw.Body \o b]

\* the error Write returns: nil or not
WriteFails(rw) == rw.Broken

\* w.Header().Set("Content-Type", value): of no effect on a response
\* whose status is sent
SetContentType(rw, value) == IF rw.Code = 0 THEN [rw EXCEPT !.ContentType = value] ELSE rw

\* http.Error: the Content-Type of a plain text, the status, the message
\* and a line end
Error(rw, error, code) ==
    Write(WriteHeader(SetContentType(rw, "text/plain; charset=utf-8"), code),
          error \o <<"\n">>)

\* encoding/json ----------------------------------------------------------

\* the characters encoding/json writes for one character of a string: a
\* backslash before the quote and the backslash, the short escapes of line
\* feed, carriage return and tab, \u00XX for <, > and &
jsonChar(c) ==
    CASE c = "\"" -> <<"\\", "\"">>
      [] c = "\\" -> <<"\\", "\\">>
      [] c = "\n" -> <<"\\", "n">>
      [] c = "\r" -> <<"\\", "r">>
      [] c = "\t" -> <<"\\", "t">>
      [] c = "<"  -> <<"\\", "u", "0", "0", "3", "c">>
      [] c = ">"  -> <<"\\", "u", "0", "0", "3", "e">>
      [] c = "&"  -> <<"\\", "u", "0", "0", "2", "6">>
      [] OTHER    -> <<c>>

\* a string as a JSON string, without the quotes around it
RECURSIVE jsonString(_)
jsonString(str) ==
    IF str = <<>> THEN <<>> ELSE jsonChar(Head(str)) \o jsonString(Tail(str))

\* json.Marshal(map[string]string{"ip": ip})
MarshalIP(ip) == <<"{", "\"", "i", "p", "\"", ":", "\"">> \o jsonString(ip) \o <<"\"", "}">>

\* the format and the callback ---------------------------------------------

\* isJSONFormat checks if format parameter equals "json" case-insensitively
isJSONFormat(format) ==
    IF Len(format) # 4 THEN FALSE
    ELSE /\ format[1] \in {"j", "J"}
         /\ format[2] \in {"s", "S"}
         /\ format[3] \in {"o", "O"}
         /\ format[4] \in {"n", "N"}

\* isJSONPFormat that takes the lower-case spelling only
isJSONPFormatExact(format) == format = <<"j", "s", "o", "n", "p">>

\* isJSONPFormat checks if format parameter equals "jsonp"
\* case-insensitively
isJSONPFormat(format) ==
    IF Len(format) # 5 THEN FALSE
    ELSE /\ format[1] \in {"j", "J"}
         /\ format[2] \in {"s", "S"}
         /\ format[3] \in {"o", "O"}
         /\ format[4] \in {"n", "N"}
         /\ format[5] \in {"p", "P"}

LowerLetters ==
    {"a", "b", "c", "d", "e", "f", "g", "h", "i", "j", "k", "l", "m",
     "n", "o", "p", "q", "r", "s", "t", "u", "v", "w", "x", "y", "z"}

UpperLetters ==
    {"A", "B", "C", "D", "E", "F", "G", "H", "I", "J", "K", "L", "M",
     "N", "O", "P", "Q", "R", "S", "T", "U", "V", "W", "X", "Y", "Z"}

Digits == {"0", "1", "2", "3", "4", "5", "6", "7", "8", "9"}

\* validCallbackRegex: ^[a-zA-Z_$][a-zA-Z0-9_$.]*$
validCallbackRegex(str) ==
    /\ str # <<>>
    /\ str[1] \in LowerLetters \cup UpperLetters \cup {"_", "$"}
    /\ \A k \in 2..Len(str) :
          str[k] \in LowerLetters \cup UpperLetters \cup Digits \cup {"_", "$", "."}

\* the longest callback name that is taken
MaxCallbackLen == 50

\* the name written when the callback parameter is not taken
DefaultCallback == <<"c", "a", "l", "l", "b", "a", "c", "k">>

\* sanitizeCallback without the limit on the length
sanitizeCallbackNoLimit(callback) ==
    IF callback = <<>> THEN DefaultCallback
    ELSE IF ~validCallbackRegex(callback) THEN DefaultCallback
    ELSE callback

\* sanitizeCallback ensures the callback parameter contains only valid
\* JavaScript identifier characters
sanitizeCallback(callback) ==
    IF callback = <<>> THEN DefaultCallback
    ELSE IF Len(callback) > MaxCallbackLen THEN DefaultCallback
    ELSE IF ~validCallbackRegex(callback) THEN DefaultCallback
    ELSE callback

\* the handlers -------------------------------------------------------------

\* if err := json.NewEncoder(w).Encode(v); err != nil { http.Error(w,
\* message, http.StatusInternalServerError) }: the value and a line end
\* are written in one call of Write, whose error is the error of Encode
Encode(rw, json, message) ==
    IF WriteFails(rw) THEN Error(Write(rw, json \o <<"\n">>), message, 500)
    ELSE Write(rw, json \o <<"\n">>)

\* the part of IPv4Handler and IPv6Handler after the address is found:
\* the response in the format the query asks for
respond(rw, r, ip) ==
    LET format   == QueryGet(r.Query, "format")
        callback == QueryGet(r.Query, "callback")
    IN
    IF isJSONPFormat(format)
    THEN Write(SetContentType(rw, "application/javascript"),
               sanitizeCallback(callback) \o <<"(">> \o MarshalIP(ip) \o <<")", ";">>)
    ELSE IF isJSONFormat(format)
    THEN Encode(SetContentType(rw, "application/json"), MarshalIP(ip),
                <<"F", "a", "i", "l", "e", "d", " ", "t", "o", " ", "e", "n", "c", "o", "d", "e", " ",
                  "J", "S", "O", "N", " ", "r", "e", "s", "p", "o", "n", "s", "e">>)
    ELSE Write(SetContentType(rw, "text/plain"), ip)

\* the part of IPv4Handler and IPv6Handler after the search: 404 with the
\* message when the address found is the empty string, else the response
respondOrNotFound(rw, r, ip, message) ==
    IF ip = <<>> THEN Error(rw, message, 404) ELSE respond(rw, r, ip)

\* IPv4Handler with the client address in the place of the IPv4 address
IPv4HandlerOfClientIP(rw, r) ==
    LET ipv4 == ExtractClientIP(r).ip IN
    IF ipv4 = <<>>
    THEN Error(rw, <<"N", "o", " ", "I", "P", "v", "4", " ", "a", "d", "d", "r", "e", "s", "s", " ", "f", "o", "u", "n", "d">>, 404)
    ELSE respond(rw, r, ipv4)

\* IPv4Handler handles requests for IPv4 addresses only
IPv4Handler(rw, r) ==
    respondOrNotFound(rw, r, FindIPv4(r),
        <<"N", "o", " ", "I", "P", "v", "4", " ", "a", "d", "d", "r", "e", "s", "s", " ", "f", "o", "u", "n", "d">>)

\* IPv6Handler handles requests for IPv6 addresses only
IPv6Handler(rw, r) ==
    respondOrNotFound(rw, r, FindIPv6(r),
        <<"N", "o", " ", "I", "P", "v", "6", " ", "a", "d", "d", "r", "e", "s", "s", " ", "f", "o", "u", "n", "d">>)

\* a JSON member "name":"value" of strings
StringMember(name, value) ==
    <<"\"">> \o name \o <<"\"", ":", "\"">> \o jsonString(value) \o <<"\"">>

\* a JSON member "name":true or "name":false
BoolMember(name, value) ==
    <<"\"">> \o name \o <<"\"", ":">> \o
    (IF value THEN <<"t", "r", "u", "e">> ELSE <<"f", "a", "l", "s", "e">>)

\* the characters of a detection label
LabelChars(via) ==
    CASE via = "CF-Connecting-IP"    -> <<"C", "F", "-", "C", "o", "n", "n", "e", "c", "t", "i", "n", "g", "-", "I", "P">>
      [] via = "True-Client-IP"      -> <<"T", "r", "u", "e", "-", "C", "l", "i", "e", "n", "t", "-", "I", "P">>
      [] via = "X-Real-IP"           -> <<"X", "-", "R", "e", "a", "l", "-", "I", "P">>
      [] via = "X-Forwarded-For"     -> <<"X", "-", "F", "o", "r", "w", "a", "r", "d", "e", "d", "-", "F", "o", "r">>
      [] via = "X-Client-IP"         -> <<"X", "-", "C", "l", "i", "e", "n", "t", "-", "I", "P">>
      [] via = "X-Cluster-Client-IP" -> <<"X", "-", "C", "l", "u", "s", "t", "e", "r", "-", "C", "l", "i", "e", "n", "t", "-", "I", "P">>
      [] via = "X-Forwarded"         -> <<"X", "-", "F", "o", "r", "w", "a", "r", "d", "e", "d">>
      [] via = "Forwarded-For"       -> <<"F", "o", "r", "w", "a", "r", "d", "e", "d", "-", "F", "o", "r">>
      [] via = "Forwarded"           -> <<"F", "o", "r", "w", "a", "r", "d", "e", "d">>
      [] via = "RemoteAddr"          -> <<"R", "e", "m", "o", "t", "e", "A", "d", "d", "r">>

\* json.Marshal of a models.IPInfo whose Timestamp is now
MarshalInfo(info, now) ==
    <<"{">>
    \o StringMember(<<"c", "l", "i", "e", "n", "t", "_", "i", "p">>, info.ClientIP) \o <<",">>
    \o StringMember(<<"d", "e", "t", "e", "c", "t", "e", "d", "_", "v", "i", "a">>, LabelChars(info.DetectedVia)) \o <<",">>
    \o StringMember(<<"i", "p", "v", "4", "_", "a", "d", "d", "r", "e", "s", "s">>, info.IPv4Address) \o <<",">>
    \o StringMember(<<"i", "p", "v", "6", "_", "a", "d", "d", "r", "e", "s", "s">>, info.IPv6Address) \o <<",">>
    \o BoolMember(<<"i", "s", "_", "p", "r", "i", "v", "a", "t", "e", "_", "i", "p">>, info.IsPrivateIP) \o <<",">>
    \o BoolMember(<<"i", "s", "_", "c", "l", "o", "u", "d", "f", "l", "a", "r", "e">>, info.IsCloudflare) \o <<",">>
    \o StringMember(<<"u", "s", "e", "r", "_", "a", "g", "e", "n", "t">>, info.UserAgent) \o <<",">>
    \o StringMember(<<"t", "i", "m", "e", "s", "t", "a", "m", "p">>, now)
    \o <<"}">>

\* json.Marshal of a models.HealthResponse
MarshalHealth(status, now) ==
    <<"{">>
    \o StringMember(<<"s", "t", "a", "t", "u", "s">>, status) \o <<",">>
    \o StringMember(<<"t", "i", "m", "e", "s", "t", "a", "m", "p">>, now)
    \o <<"}">>

\* JSONHandler provides comprehensive JSON response; now is the time
\* GetInfo reads from the clock
JSONHandler(rw, r, now) ==
    Encode(SetContentType(rw, "application/json"), MarshalInfo(GetInfo(r), now),
           <<"F", "a", "i", "l", "e", "d", " ", "t", "o", " ", "e", "n", "c", "o", "d", "e", " ",
             "J", "S", "O", "N", " ", "r", "e", "s", "p", "o", "n", "s", "e">>)

\* HealthHandler provides health check endpoint; now is the time
\* NewHealthResponse reads from the clock
HealthHandler(rw, r, now) ==
    Encode(SetContentType(rw, "application/json"),
           MarshalHealth(<<"h", "e", "a", "l", "t", "h", "y">>, now),
           <<"F", "a", "i", "l", "e", "d", " ", "t", "o", " ", "e", "n", "c", "o", "d", "e", " ",
             "h", "e", "a", "l", "t", "h", " ", "r", "e", "s", "p", "o", "n", "s", "e">>)

\* ------------------------------------------------------------------------
\* requests
\* ------------------------------------------------------------------------

\* the entries a header value is made of: a public and a private IPv4
\* address (the second written with a blank after it), an IPv6 address and
\* a token that is no address
PiecePool ==
    << <<"2", "0", "3", ".", "0", ".", "1", "1", "3", ".", "1">>,
       <<"1", "9", "2", ".", "1", "6", "8", ".", "1", ".", "1", " ">>,
       <<"2", "0", "0", "1", ":", "d", "b", "8", ":", ":", "1">>,
       <<"i", "n", "v", "a", "l", "i", "d">> >>

\* the same and the empty entry
PeerPiecePool == PiecePool \o << <<>> >>

\* the peer addresses: host:port, [host]:port, a bare token, bare addresses
\* without a port, a host that is no address, an unclosed bracket, a
\* bracketed address without a port, nothing
RemotePool ==
    { <<"2", "0", "3", ".", "0", ".", "1", "1", "3", ".", "1", ":", "1", "2", "3", "4", "5">>,
      <<"[", "2", "0", "0", "1", ":", "d", "b", "8", ":", ":", "1", "]", ":", "8", "0", "8", "0">>,
      <<"m", "a", "l", "f", "o", "r", "m", "e", "d", "-", "a", "d", "d", "r">>,
      <<"1", "9", "2", ".", "1", "6", "8", ".", "1", ".", "1">>,
      <<"2", "0", "0", "1", ":", "d", "b", "8", ":", ":", "1">>,
      <<"i", "n", "v", "a", "l", "i", "d", ":", "1", "2", "3", "4", "5">>,
      <<"[", "2", "0", "0", "1", ":", "d", "b", "8", ":", ":", "1">>,
      <<"[", "2", "0", "0", "1", ":", "d", "b", "8", ":", ":", "1", "]">>,
      <<>> }

\* the peer address of the requests whose headers are varied
DefaultPeer == <<"1", "9", "8", ".", "5", "1", ".", "1", "0", "0", ".", "7", ":", "1", "2", "3", "4", "5">>

\* the most entries the headers of one request hold, all headers together,
\* where the headers are varied (Spec)
MaxPieces == 2

\* the same where the peer address is varied (SpecPeer)
MaxPeerPieces == 1

\* the header names a request can carry: the nine of the table and the two
\* that IsCloudflareRequest and GetInfo read besides
HeaderNames ==
    {headerPriorityInit[i] : i \in 1..Len(headerPriorityInit)} \cup {"CF-Ray", "User-Agent"}

\* the ways to put exactly k entries of pool into the headers: a sequence
\* of <<header index, entry index>>, the header indices in ascending order
RECURSIVE Placements(_, _)
Placements(k, pool) ==
    IF k = 0 THEN {<<>>}
    ELSE UNION { { Append(p, <<h, x>>) :
                     h \in (IF p = <<>> THEN 1 ELSE p[Len(p)][1])..Len(headerPriorityInit),
                     x \in 1..Len(pool) } :
                 p \in Placements(k - 1, pool) }

\* the entries joined the way proxies write a list: "a, b, c"
RECURSIVE JoinPieces(_, _)
JoinPieces(p, pool) ==
    IF p = <<>> THEN <<>>
    ELSE IF Len(p) = 1 THEN pool[p[1][2]]
    ELSE pool[p[1][2]] \o <<",", " ">> \o JoinPieces(Tail(p), pool)

\* the header map of a placement: a header with entries has one value
HeaderOf(p, pool) ==
    [name \in HeaderNames |->
        LET mine == SelectSeq(p, LAMBDA e : headerPriorityInit[e[1]] = name)
        IN  IF mine = <<>> THEN <<>> ELSE <<JoinPieces(mine, pool)>>]

\* the header maps with at most n entries of pool
Requests(n, pool) == UNION {{HeaderOf(p, pool) : p \in Placements(k, pool)} : k \in 0..n}

\* the header map of a request without headers
NoHeaders == [name \in HeaderNames |-> <<>>]

\* ------------------------------------------------------------------------
\* address strings
\* ------------------------------------------------------------------------

\* strconv.Itoa for n >= 0
RECURSIVE Itoa(_)
Itoa(n) ==
    IF n < 10 THEN <<DecDigits[n + 1]>>
    ELSE Itoa(n \div 10) \o <<DecDigits[(n % 10) + 1]>>

\* n in lower-case hexadecimal digits, without leading zeros
RECURSIVE Hex(_)
Hex(n) ==
    LET d == IF n % 16 < 10 THEN DecDigits[(n % 16) + 1] ELSE HexLower[(n % 16) - 9]
    IN  IF n < 16 THEN <<d>> ELSE Hex(n \div 16) \o <<d>>

\* the dotted quad of four octets
IPv4String(o) ==
    Itoa(o[1]) \o <<".">> \o Itoa(o[2]) \o <<".">> \o Itoa(o[3]) \o <<".">> \o Itoa(o[4])

\* eight 16-bit groups written in full, "g1:g2:...:g8"
RECURSIVE IPv6String(_)
IPv6String(g) ==
    IF Len(g) = 1 THEN Hex(g[1]) ELSE Hex(g[1]) \o <<":">> \o IPv6String(Tail(g))

\* IPv4 addresses on and next to the borders of the private networks
V4Octets ==
    { <<a, b, c, c>> :
        a \in {8, 9, 10, 11, 126, 127, 128, 169, 170, 172, 192, 203},
        b \in {0, 15, 16, 31, 32, 167, 168, 169, 253, 254, 255},
        c \in {0, 255} }

\* IPv6 addresses on and next to the borders of the private networks:
\* 0, 2001, fbff, fc00, fdff, fe00, fe7f, fe80, febf, fec0, ff00 in front
V6Groups ==
    { <<a, t, t, t, t, t, t, z>> :
        a \in {0, 8193, 64511, 64512, 65023, 65024, 65151, 65152, 65215, 65216, 65280},
        t \in {0, 65535},
        z \in {0, 1, 65535} }

\* addresses in short forms, and IPv4 addresses in IPv6 notation
ShortForms ==
    { <<":", ":", "1">>, <<"f", "c", "0", "0", ":", ":">>, <<"f", "e", "8", "0", ":", ":">>, <<"2", "0", "0", "1", ":", "d", "b", "8", ":", ":">>, <<"f", "f", "0", "0", ":", ":">>, <<":", ":">>,
      <<":", ":", "f", "f", "f", "f", ":", "1", "0", ".", "0", ".", "0", ".", "1">>, <<":", ":", "f", "f", "f", "f", ":", "8", ".", "8", ".", "8", ".", "8">> }

\* strings that are no address: nothing, words, octets and groups out of
\* range, an address with a port, in brackets, after a blank, with a zone,
\* too few and too many fields, empty fields
NotAddresses ==
    { <<>>, <<"i", "n", "v", "a", "l", "i", "d">>, <<"n", "o", "t", "-", "a", "n", "-", "i", "p">>, <<"9", "9", "9", ".", "9", "9", "9", ".", "9", "9", "9", ".", "9", "9", "9">>, <<"g", "g", "g", "g", ":", ":", "1">>,
      <<"1", "0", ".", "0", ".", "0", ".", "1", ":", "8", "0", "8", "0">>, <<"[", ":", ":", "1", "]">>, <<"[", "f", "c", "0", "0", ":", ":", "1", "]", ":", "8", "0">>, <<" ", "1", "0", ".", "0", ".", "0", ".", "1">>, <<"1", "0", ".", "0", ".", "0">>,
      <<"1", "0", ".", "0", ".", "0", ".", "0", ".", "1">>, <<"1", "0", ".", "0", ".", "0", ".", "2", "5", "6">>, <<"1", "0", ".", ".", "0", ".", "1">>, <<"f", "e", "8", "0", ":", ":", "1", "%", "e", "t", "h", "0">>, <<"f", "c", "0", "0", ":", ":", ":", "1">>,
      <<"f", "c", "0", "0", ":", ":", "1", ":", ":", "2">>, <<"1", ":", "2", ":", "3", ":", "4", ":", "5", ":", "6", ":", "7">>, <<"f", "c", "0", "0", ":", "0", ":", "0", ":", "0", ":", "0", ":", "0", ":", "0", ":", "0", ":", "1">>, <<"f", "c", "0", "0", ":", ":", "1", "2", "3", "4", "5">> }

AddrLiterals == ShortForms \cup NotAddresses

AddrPool ==
    {IPv4String(o) : o \in V4Octets} \cup {IPv6String(g) : g \in V6Groups}
        \cup AddrLiterals

\* ------------------------------------------------------------------------
\* the state machine: one request or one string, one operation on it
\* ------------------------------------------------------------------------

NoResult ==
    [ClientIP |-> <<>>, DetectedVia |-> "", IPv4Address |-> <<>>,
     IPv6Address |-> <<>>, IsPrivateIP |-> FALSE, IsCloudflare |-> FALSE,
     UserAgent |-> <<>>, Valid |-> FALSE, Slice |-> NilSlice,
     Again |-> NilSlice]

\* package initialisation: the three package-level tables, all built
InitTables ==
    /\ proc = "serving"
    /\ cidrs = SourceCIDRs
    /\ headerPriority = headerPriorityInit
    /\ privateIPRanges = privateIPRangesInit
    /\ privateIPv6Ranges = privateIPv6RangesInit

tables == <<headerPriority, privateIPRanges, privateIPv6Ranges>>

program == <<proc, cidrs>>

inputs == <<Header, RemoteAddr, Query, arg, slice>>

\* requests with varied headers, from one peer
Init ==
    /\ InitTables
    /\ Header \in Requests(MaxPieces, PiecePool)
    /\ RemoteAddr = DefaultPeer
    /\ Query = NoQuery
    /\ w = NewRecorder
    /\ arg = <<>>
    /\ slice = NilSlice
    /\ calls = <<>>
    /\ op = ""
    /\ ret = NoResult

\* requests with varied peer addresses
InitPeer ==
    /\ InitTables
    /\ Header \in Requests(MaxPeerPieces, PeerPiecePool)
    /\ RemoteAddr \in RemotePool
    /\ Query = NoQuery
    /\ w = NewRecorder
    /\ arg = <<>>
    /\ slice = NilSlice
    /\ calls = <<>>
    /\ op = ""
    /\ ret = NoResult

\* the values of one header name in a request: none, one that is empty, one
\* that is no address, one that is an IPv4 address, one that is an IPv6
\* address, an empty one followed by a second occurrence of the name
CloudflareValues ==
    { <<>>,
      << <<>> >>,
      << <<"g", "a", "r", "b", "a", "g", "e">> >>,
      << <<"2", "0", "3", ".", "0", ".", "1", "1", "3", ".", "1">> >>,
      << <<"2", "0", "0", "1", ":", "d", "b", "8", ":", ":", "1">> >>,
      << <<>>, <<"8", "f", "3", "a", "-", "S", "I", "N">> >> }

\* the values of User-Agent: none, one, two occurrences
UserAgentValues ==
    { <<>>,
      << <<"c", "u", "r", "l", "/", "8">> >>,
      << <<"M", "o", "z", "i", "l", "l", "a", "/", "5", ".", "0">>, <<"c", "u", "r", "l", "/", "8">> >> }

\* requests with varied Cloudflare headers, with and without X-Real-IP and
\* User-Agent, from a peer whose address splits and from one whose does not
InitCloudflare ==
    /\ InitTables
    /\ \E cf, ray, tc \in CloudflareValues, ua \in UserAgentValues,
          xr \in {<<>>, << PiecePool[2] >>} :
          Header = [name \in HeaderNames |->
                      CASE name = "CF-Connecting-IP" -> cf
                        [] name = "CF-Ray"           -> ray
                        [] name = "True-Client-IP"   -> tc
                        [] name = "User-Agent"       -> ua
                        [] name = "X-Real-IP"        -> xr
                        [] OTHER                     -> <<>>]
    /\ RemoteAddr \in {DefaultPeer, <<"m", "a", "l", "f", "o", "r", "m", "e", "d", "-", "a", "d", "d", "r">>}
    /\ Query = NoQuery
    /\ w = NewRecorder
    /\ arg = <<>>
    /\ slice = NilSlice
    /\ calls = <<>>
    /\ op = ""
    /\ ret = NoResult

\* the strings the lists are made of
SliceItems ==
    { <<>>,
      <<"1", "9", "2", ".", "1", "6", "8", ".", "1", ".", "1">>,
      <<"t", "e", "s", "t">> }

\* the most strings a list holds
MaxSlice == 3

\* the lists of exactly n strings
RECURSIVE ListsOf(_)
ListsOf(n) ==
    IF n = 0 THEN {<<>>}
    ELSE {Append(l, x) : l \in ListsOf(n - 1), x \in SliceItems}

\* the slices: nil, and the lists of up to MaxSlice strings
Slices == {NilSlice} \cup UNION {{SliceOf(l) : l \in ListsOf(n)} : n \in 0..MaxSlice}

\* varied lists, and a request without headers
InitSlices ==
    /\ InitTables
    /\ Header = NoHeaders
    /\ RemoteAddr = DefaultPeer
    /\ Query = NoQuery
    /\ w = NewRecorder
    /\ arg = <<>>
    /\ slice \in Slices
    /\ calls = <<>>
    /\ op = ""
    /\ ret = NoResult

\* program texts: the one of the source, and three with one literal that
\* is no CIDR (a prefix length past 32, a missing length, a length that is
\* no number)
ProgramTexts ==
    { SourceCIDRs,
      [SourceCIDRs EXCEPT !.privateIPRanges[2] =
          <<"1", "7", "2", ".", "1", "6", ".", "0", ".", "0", "/", "3", "3">>],
      [SourceCIDRs EXCEPT !.privateIPRanges[5] =
          <<"1", "2", "7", ".", "0", ".", "0", ".", "0">>],
      [SourceCIDRs EXCEPT !.privateIPv6Ranges[1] =
          <<"f", "c", "0", "0", ":", ":", "/", "7", "x">>] }

\* the headers of the requests a process serves: none, or one header, the
\* first or the fourth of the table, with one entry
ProcessHeaders ==
    {NoHeaders} \cup
    {HeaderOf(<< <<h, x>> >>, PiecePool) : h \in {1, 4}, x \in 1..Len(PiecePool)}

\* their peer addresses
ProcessPeers == {DefaultPeer, <<"m", "a", "l", "f", "o", "r", "m", "e", "d", "-", "a", "d", "d", "r">>}

\* the process starts: no package variable is initialised, a first request
\* is on its way
InitProcess ==
    /\ proc = "headerPriority"
    /\ cidrs \in ProgramTexts
    /\ headerPriority = <<>>
    /\ privateIPRanges = <<>>
    /\ privateIPv6Ranges = <<>>
    /\ Header \in ProcessHeaders
    /\ RemoteAddr \in ProcessPeers
    /\ Query = NoQuery
    /\ w = NewRecorder
    /\ arg = <<>>
    /\ slice = NilSlice
    /\ calls = <<>>
    /\ op = ""
    /\ ret = NoResult

\* the values of the format parameter: none, an empty one, json and jsonp
\* in lower, upper and mixed case, a word one letter longer, another
\* word, and two occurrences of the parameter
FormatValues ==
    { <<>>,
      << <<>> >>,
      << <<"j", "s", "o", "n">> >>,
      << <<"J", "S", "O", "N">> >>,
      << <<"j", "s", "o", "n", "p">> >>,
      << <<"J", "s", "O", "n", "P">> >>,
      << <<"j", "s", "o", "n", "x">> >>,
      << <<"x", "m", "l">> >>,
      << <<"x", "m", "l">>, <<"j", "s", "o", "n", "p">> >> }

\* the values of the callback parameter: none, a name, a path of names, a
\* call, a name that starts with a digit, names of MaxCallbackLen letters
\* and of one more
CallbackValues ==
    { <<>>,
      << <<"g", "e", "t", "i", "p">> >>,
      << <<"m", "y", ".", "c", "b", "_", "$", "1">> >>,
      << <<"a", "l", "e", "r", "t", "(", "1", ")">> >>,
      << <<"1", "a", "b", "c">> >>,
      << [k \in 1..MaxCallbackLen |-> "a"] >>,
      << [k \in 1..(MaxCallbackLen + 1) |-> "a"] >> }

\* the headers of the requests to the handlers: none, X-Forwarded-For with
\* an IPv4 address, with an IPv6 address, with no address, with an IPv6
\* address before an IPv4 address
HandlerHeaders ==
    {NoHeaders} \cup
    {HeaderOf(<< <<4, x>> >>, PiecePool) : x \in {1, 3, 4}} \cup
    {HeaderOf(<< <<4, 3>>, <<4, 2>> >>, PiecePool)}

\* their peer addresses: an IPv4 address, an IPv6 address, no address
HandlerPeers ==
    { DefaultPeer,
      <<"[", "2", "0", "0", "1", ":", "d", "b", "8", ":", ":", "1", "]", ":", "8", "0", "8", "0">>,
      <<"i", "n", "v", "a", "l", "i", "d", ":", "1", "2", "3", "4", "5">> }

\* requests to the handlers, with varied queries
InitHandlers ==
    /\ InitTables
    /\ Header \in HandlerHeaders
    /\ RemoteAddr \in HandlerPeers
    /\ Query \in [format : FormatValues, callback : CallbackValues]
    /\ w = NewRecorder
    /\ arg = <<>>
    /\ slice = NilSlice
    /\ calls = <<>>
    /\ op = ""
    /\ ret = NoResult

\* varied strings, and a request without headers
InitAddr ==
    /\ InitTables
    /\ Header = NoHeaders
    /\ RemoteAddr = DefaultPeer
    /\ Query = NoQuery
    /\ w = NewRecorder
    /\ arg \in AddrPool
    /\ slice = NilSlice
    /\ calls = <<>>
    /\ op = ""
    /\ ret = NoResult

DoIsValid ==
    /\ proc = "serving"
    /\ op = ""
    /\ ret' = [ret EXCEPT !.Valid = IsValid(arg)]
    /\ op' = "IsValid"
    /\ UNCHANGED <<program, tables, inputs, w, calls>>

DoIsPrivate ==
    /\ proc = "serving"
    /\ op = ""
    /\ ret' = [ret EXCEPT !.IsPrivateIP = IsPrivate(arg)]
    /\ op' = "IsPrivate"
    /\ UNCHANGED <<program, tables, inputs, w, calls>>

\* ExtractClientIP that moves the header that gave the address to the
\* front of the table
DoExtractClientIPMoveToFront ==
    /\ proc = "serving"
    /\ op = ""
    /\ \E c \in {ExtractClientIP(Request)} :
          /\ ret' = [ret EXCEPT !.ClientIP = c.ip, !.DetectedVia = c.via]
          /\ headerPriority' =
                IF c.via = "RemoteAddr" THEN headerPriority
                ELSE <<c.via>> \o SelectSeq(headerPriority, LAMBDA h : h # c.via)
    /\ op' = "ExtractClientIP"
    /\ UNCHANGED <<program, privateIPRanges, privateIPv6Ranges, inputs, w, calls>>

DoExtractClientIP ==
    /\ proc = "serving"
    /\ op = ""
    /\ \E c \in {ExtractClientIP(Request)} :
          ret' = [ret EXCEPT !.ClientIP = c.ip, !.DetectedVia = c.via]
    /\ op' = "ExtractClientIP"
    /\ UNCHANGED <<program, tables, inputs, w, calls>>

DoFindIPv4 ==
    /\ proc = "serving"
    /\ op = ""
    /\ ret' = [ret EXCEPT !.IPv4Address = FindIPv4(Request)]
    /\ op' = "FindIPv4"
    /\ UNCHANGED <<program, tables, inputs, w, calls>>

DoFindIPv6 ==
    /\ proc = "serving"
    /\ op = ""
    /\ ret' = [ret EXCEPT !.IPv6Address = FindIPv6(Request)]
    /\ op' = "FindIPv6"
    /\ UNCHANGED <<program, tables, inputs, w, calls>>

DoIsCloudflareRequest ==
    /\ proc = "serving"
    /\ op = ""
    /\ ret' = [ret EXCEPT !.IsCloudflare = IsCloudflareRequest(Request)]
    /\ op' = "IsCloudflareRequest"
    /\ UNCHANGED <<program, tables, inputs, w, calls>>

DoRemoveDuplicates ==
    /\ proc = "serving"
    /\ op = ""
    /\ ret' = [ret EXCEPT !.Slice = RemoveDuplicates(slice)]
    /\ op' = "RemoveDuplicates"
    /\ UNCHANGED <<program, tables, inputs, w, calls>>

\* RemoveDuplicates called with the list it has returned
DoRemoveDuplicatesAgain ==
    /\ proc = "serving"
    /\ op = "RemoveDuplicates"
    /\ ret' = [ret EXCEPT !.Again = RemoveDuplicates(ret.Slice)]
    /\ op' = "RemoveDuplicatesAgain"
    /\ UNCHANGED <<program, tables, inputs, w, calls>>

DoIPv4Handler ==
    /\ proc = "serving"
    /\ op = ""
    /\ w' = IPv4Handler(w, HTTPRequest)
    /\ op' = "IPv4Handler"
    /\ UNCHANGED <<program, tables, inputs, ret, calls>>

DoIPv6Handler ==
    /\ proc = "serving"
    /\ op = ""
    /\ w' = IPv6Handler(w, HTTPRequest)
    /\ op' = "IPv6Handler"
    /\ UNCHANGED <<program, tables, inputs, ret, calls>>

\* the times the clock shows, as time.RFC3339 writes them
Clock ==
    { <<"2", "0", "2", "4", "-", "0", "1", "-", "0", "1", "T", "0", "0", ":", "0", "0", ":", "0", "0", "Z">>,
      <<"2", "0", "2", "4", "-", "0", "6", "-", "3", "0", "T", "2", "3", ":", "5", "9", ":", "5", "9", "Z">> }

DoJSONHandler ==
    /\ proc = "serving"
    /\ op = ""
    /\ \E now \in Clock : w' = JSONHandler(w, HTTPRequest, now)
    /\ op' = "JSONHandler"
    /\ UNCHANGED <<program, tables, inputs, ret, calls>>

DoHealthHandler ==
    /\ proc = "serving"
    /\ op = ""
    /\ \E now \in Clock : w' = HealthHandler(w, HTTPRequest, now)
    /\ op' = "HealthHandler"
    /\ UNCHANGED <<program, tables, inputs, ret, calls>>

DoGetInfo ==
    /\ proc = "serving"
    /\ op = ""
    /\ \E info \in {GetInfo(Request)} :
          ret' = [ret EXCEPT !.ClientIP = info.ClientIP,
                             !.DetectedVia = info.DetectedVia,
                             !.IPv4Address = info.IPv4Address,
                             !.IPv6Address = info.IPv6Address,
                             !.IsPrivateIP = info.IsPrivateIP,
                             !.IsCloudflare = info.IsCloudflare,
                             !.UserAgent = info.UserAgent]
    /\ op' = "GetInfo"
    /\ UNCHANGED <<program, tables, inputs, w, calls>>

\* the CIDR literals of a table that do not parse
Fatal(literals) == \E k \in DOMAIN literals : ParseCIDR(literals[k]) = NilNet

\* var headerPriority = []string{...}
InitHeaderPriority ==
    /\ proc = "headerPriority"
    /\ headerPriority' = headerPriorityInit
    /\ proc' = "privateIPRanges"
    /\ UNCHANGED <<cidrs, privateIPRanges, privateIPv6Ranges, inputs, w, op, ret, calls>>

\* var privateIPRanges = []*net.IPNet{parseCIDR(...), ...}: log.Fatalf
\* ends the process at the first literal that does not parse
InitPrivateIPRanges ==
    /\ proc = "privateIPRanges"
    /\ IF Fatal(cidrs.privateIPRanges)
       THEN /\ proc' = "exited"
            /\ UNCHANGED privateIPRanges
       ELSE /\ privateIPRanges' = [k \in DOMAIN cidrs.privateIPRanges |->
                                      parseCIDR(cidrs.privateIPRanges[k])]
            /\ proc' = "privateIPv6Ranges"
    /\ UNCHANGED <<cidrs, headerPriority, privateIPv6Ranges, inputs, w, op, ret, calls>>

\* var privateIPv6Ranges = []*net.IPNet{parseCIDR(...), ...}; main, which
\* starts the server, runs when the package variables are initialised
InitPrivateIPv6Ranges ==
    /\ proc = "privateIPv6Ranges"
    /\ IF Fatal(cidrs.privateIPv6Ranges)
       THEN /\ proc' = "exited"
            /\ UNCHANGED privateIPv6Ranges
       ELSE /\ privateIPv6Ranges' = [k \in DOMAIN cidrs.privateIPv6Ranges |->
                                        parseCIDR(cidrs.privateIPv6Ranges[k])]
            /\ proc' = "serving"
    /\ UNCHANGED <<cidrs, headerPriority, privateIPRanges, inputs, w, op, ret, calls>>

\* the server takes the next request when the operation on the last has
\* returned
NewRequest ==
    /\ proc = "serving"
    /\ op # ""
    /\ Header' \in ProcessHeaders
    /\ RemoteAddr' \in ProcessPeers
    /\ w' = NewRecorder
    /\ op' = ""
    /\ ret' = NoResult
    /\ UNCHANGED <<program, tables, Query, arg, slice, calls>>

Next ==
    \/ DoIsValid
    \/ DoIsPrivate
    \/ DoExtractClientIP
    \/ DoFindIPv4
    \/ DoFindIPv6
    \/ DoGetInfo

Spec == Init /\ [][Next]_vars

SpecPeer == InitPeer /\ [][Next]_vars

SpecAddr == InitAddr /\ [][Next]_vars

\* the operations that read the Cloudflare headers
NextCloudflare ==
    \/ DoIsCloudflareRequest
    \/ DoGetInfo

SpecCloudflare == InitCloudflare /\ [][NextCloudflare]_vars

\* the operation on lists, once and again
NextSlices ==
    \/ DoRemoveDuplicates
    \/ DoRemoveDuplicatesAgain

SpecSlices == InitSlices /\ [][NextSlices]_vars

\* the two handlers that answer with one address
NextHandlers ==
    \/ DoIPv4Handler
    \/ DoIPv6Handler

SpecHandlers == InitHandlers /\ [][NextHandlers]_vars

\* all of the inputs, each a request's headers and peer address, a string
\* and a list: requests with varied peer addresses, varied strings, varied
\* lists
AnyInputs ==
    {<<h, p, <<>>, NilSlice>> : h \in Requests(MaxPeerPieces, PeerPiecePool), p \in RemotePool}
    \cup {<<NoHeaders, DefaultPeer, a, NilSlice>> : a \in AddrPool}
    \cup {<<NoHeaders, DefaultPeer, <<>>, s>> : s \in Slices}

\* an operation of package ip is about to run on one of the inputs
InitAny ==
    /\ InitTables
    /\ \E x \in AnyInputs :
          /\ Header = x[1]
          /\ RemoteAddr = x[2]
          /\ arg = x[3]
          /\ slice = x[4]
    /\ Query = NoQuery
    /\ w = NewRecorder
    /\ calls = <<>>
    /\ op = ""
    /\ ret = NoResult

\* the eight operations of package ip
NextAny ==
    \/ Next
    \/ DoIsCloudflareRequest
    \/ DoRemoveDuplicates

SpecAny == InitAny /\ [][NextAny]_vars

\* ------------------------------------------------------------------------
\* calls of GetInfo that run at the same time, each a statement at a time
\* ------------------------------------------------------------------------

\* the most calls that run at the same time
MaxCalls == 2

\* the requests of the calls: CF-Connecting-IP with a user agent; a list
\* in X-Forwarded-For; no header and a peer address that does not split;
\* CF-Ray and a private X-Real-IP
ConcurrentRequests ==
    { [Header |-> [NoHeaders EXCEPT !["CF-Connecting-IP"] = << PiecePool[1] >>,
                                    !["User-Agent"] = << <<"c", "u", "r", "l", "/", "8">> >>],
       RemoteAddr |-> DefaultPeer],
      [Header |-> HeaderOf(<< <<4, 3>>, <<4, 2>> >>, PiecePool),
       RemoteAddr |-> DefaultPeer],
      [Header |-> NoHeaders,
       RemoteAddr |-> <<"m", "a", "l", "f", "o", "r", "m", "e", "d", "-", "a", "d", "d", "r">>],
      [Header |-> [NoHeaders EXCEPT !["CF-Ray"] = << <<"8", "f", "3", "a", "-", "S", "I", "N">> >>,
                                    !["X-Real-IP"] = << PiecePool[2] >>],
       RemoteAddr |-> DefaultPeer] }

\* the record of a call that has not returned
NoInfo ==
    [ClientIP |-> <<>>, DetectedVia |-> "", IPv4Address |-> <<>>,
     IPv6Address |-> <<>>, IsPrivateIP |-> FALSE, IsCloudflare |-> FALSE,
     UserAgent |-> <<>>]

\* a call of GetInfo(r) before its first statement
NewCall(r) ==
    [r |-> r, pc |-> "ExtractClientIP", clientIP |-> <<>>, detectedVia |-> "",
     ipv4 |-> <<>>, ipv6 |-> <<>>, isPrivate |-> FALSE, info |-> NoInfo]

InitConcurrent ==
    /\ InitTables
    /\ Header = NoHeaders
    /\ RemoteAddr = DefaultPeer
    /\ Query = NoQuery
    /\ w = NewRecorder
    /\ arg = <<>>
    /\ slice = NilSlice
    /\ calls \in [1..MaxCalls -> {NewCall(r) : r \in ConcurrentRequests}]
    /\ op = ""
    /\ ret = NoResult

\* clientIP, detectedVia := ExtractClientIP(r)
CallExtractClientIP(i) ==
    /\ calls[i].pc = "ExtractClientIP"
    /\ \E c \in {ExtractClientIP(calls[i].r)} :
          calls' = [calls EXCEPT ![i].clientIP = c.ip, ![i].detectedVia = c.via,
                                 ![i].pc = "FindIPv4"]
    /\ UNCHANGED <<program, tables, inputs, w, op, ret>>

\* ipv4 := FindIPv4(r), with ipv4 a variable of the package, which all
\* calls share, in the place of a local one
CallFindIPv4Shared(i) ==
    /\ calls[i].pc = "FindIPv4"
    /\ \E found \in {FindIPv4(calls[i].r)} :
          calls' = [j \in DOMAIN calls |->
                      IF j = i THEN [calls[j] EXCEPT !.ipv4 = found, !.pc = "FindIPv6"]
                      ELSE [calls[j] EXCEPT !.ipv4 = found]]
    /\ UNCHANGED <<program, tables, inputs, w, op, ret>>

\* ipv4 := FindIPv4(r)
CallFindIPv4(i) ==
    /\ calls[i].pc = "FindIPv4"
    /\ calls' = [calls EXCEPT ![i].ipv4 = FindIPv4(calls[i].r), ![i].pc = "FindIPv6"]
    /\ UNCHANGED <<program, tables, inputs, w, op, ret>>

\* ipv6 := FindIPv6(r)
CallFindIPv6(i) ==
    /\ calls[i].pc = "FindIPv6"
    /\ calls' = [calls EXCEPT ![i].ipv6 = FindIPv6(calls[i].r), ![i].pc = "IsPrivate"]
    /\ UNCHANGED <<program, tables, inputs, w, op, ret>>

\* IsPrivate(clientIP), the first call in the record that is returned
CallIsPrivate(i) ==
    /\ calls[i].pc = "IsPrivate"
    /\ calls' = [calls EXCEPT ![i].isPrivate = IsPrivate(calls[i].clientIP),
                               ![i].pc = "return"]
    /\ UNCHANGED <<program, tables, inputs, w, op, ret>>

\* return &models.IPInfo{...}, with the two reads of the request's headers
CallReturn(i) ==
    /\ calls[i].pc = "return"
    /\ calls' = [calls EXCEPT
                    ![i].info = [ClientIP     |-> calls[i].clientIP,
                                 DetectedVia  |-> calls[i].detectedVia,
                                 IPv4Address  |-> calls[i].ipv4,
                                 IPv6Address  |-> calls[i].ipv6,
                                 IsPrivateIP  |-> calls[i].isPrivate,
                                 IsCloudflare |-> IsCloudflareRequest(calls[i].r),
                                 UserAgent    |-> Get(calls[i].r.Header, "User-Agent")],
                    ![i].pc = "done"]
    /\ UNCHANGED <<program, tables, inputs, w, op, ret>>

NextConcurrent ==
    \E i \in DOMAIN calls :
        \/ CallExtractClientIP(i)
        \/ CallFindIPv4(i)
        \/ CallFindIPv6(i)
        \/ CallIsPrivate(i)
        \/ CallReturn(i)

SpecConcurrent == InitConcurrent /\ [][NextConcurrent]_vars

\* the process from its start: the package variables are initialised, then
\* requests are served one after the other
NextProcess ==
    \/ InitHeaderPriority
    \/ InitPrivateIPRanges
    \/ InitPrivateIPv6Ranges
    \/ Next
    \/ NewRequest

SpecProcess == InitProcess /\ [][NextProcess]_vars

\* ------------------------------------------------------------------------
\* what the claims speak of
\* ------------------------------------------------------------------------

\* the Priority Table as the specification lists it
PriorityTable ==
    << "CF-Connecting-IP", "True-Client-IP", "X-Real-IP", "X-Forwarded-For",
       "X-Client-IP", "X-Cluster-Client-IP", "X-Forwarded", "Forwarded-For",
       "Forwarded" >>

\* the entries of the request's headers, trimmed: for each rank of the
\* Priority Table the comma-separated pieces of the header's value
HeaderEntries ==
    [h \in 1..Len(PriorityTable) |->
        LET value == Get(Header, PriorityTable[h])
        IN  IF value = <<>> THEN <<>>
            ELSE LET pieces == Split(value, ",")
                 IN  [k \in 1..Len(pieces) |-> TrimSpace(pieces[k])]]

\* s is an address with a 4-byte form
IsV4(s) == IsValid(s) /\ To4(ParseIP(s)) # NilIP

\* s is an address without a 4-byte form
IsV6(s) == IsValid(s) /\ To4(ParseIP(s)) = NilIP

\* the ranks of the headers of E that hold an entry with property P
RanksWith(E, P(_)) == {h \in DOMAIN E : \E k \in DOMAIN E[h] : P(E[h][k])}

\* <<h, k>> is the first place of E, in table order and then from left to
\* right, whose entry has property P
FirstPlace(E, P(_), h, k) ==
    /\ h \in DOMAIN E /\ k \in DOMAIN E[h] /\ P(E[h][k])
    /\ \A j \in 1..(k - 1) : ~P(E[h][j])
    /\ \A g \in 1..(h - 1) : \A j \in DOMAIN E[g] : ~P(E[g][j])

\* s is host:port with the colon at i: no other colon and no bracket
PlainHostPort(s, i) ==
    /\ s[i] = ":"
    /\ \A j \in 1..Len(s) : (j # i => s[j] # ":") /\ s[j] \notin {"[", "]"}

\* s is [host]:port with the colon at i: nothing but a port after it, and
\* no further bracket in the host
BracketHostPort(s, i) ==
    /\ i >= 3 /\ s[1] = "[" /\ s[i - 1] = "]" /\ s[i] = ":"
    /\ \A j \in (i + 1)..Len(s) : s[j] \notin {":", "[", "]"}
    /\ \A j \in 2..(i - 2) : s[j] \notin {"[", "]"}

\* the peer address splits as host:port or [host]:port
SplitsAsHostPort(s) ==
    \E i \in 1..Len(s) : PlainHostPort(s, i) \/ BracketHostPort(s, i)

\* the host of a peer address that splits, the whole of one that does not
PeerHost(s) ==
    IF \E i \in 1..Len(s) : PlainHostPort(s, i)
    THEN SubSeq(s, 1, (CHOOSE i \in 1..Len(s) : PlainHostPort(s, i)) - 1)
    ELSE IF \E i \in 1..Len(s) : BracketHostPort(s, i)
    THEN SubSeq(s, 2, (CHOOSE i \in 1..Len(s) : BracketHostPort(s, i)) - 2)
    ELSE s

\* ------------------------------------------------------------------------
\* the claims
\* ------------------------------------------------------------------------

\* C1: when two or more priority headers each hold a valid address,
\* ExtractClientIP returns an address of the one that comes first in the
\* Priority Table, and via is the name of that header.
C1_Precedence ==
    op = "ExtractClientIP" =>
        \A E \in {HeaderEntries} :
            \A ranks \in {RanksWith(E, IsValid)} :
                Cardinality(ranks) >= 2 =>
                    \E h \in ranks :
                        /\ \A g \in ranks : h <= g
                        /\ ret.DetectedVia = PriorityTable[h]
                        /\ \E k \in DOMAIN E[h] :
                              IsValid(E[h][k]) /\ ret.ClientIP = E[h][k]

\* C1, its case: X-Real-IP and Forwarded both hold a valid address, and the
\* address of X-Real-IP is returned
C1_Witness ==
    /\ op = "ExtractClientIP"
    /\ Get(Header, "X-Real-IP") = <<"2", "0", "0", "1", ":", "d", "b", "8", ":", ":", "1">>
    /\ Get(Header, "Forwarded") = <<"2", "0", "3", ".", "0", ".", "1", "1", "3", ".", "1">>
    /\ ret.ClientIP = <<"2", "0", "0", "1", ":", "d", "b", "8", ":", ":", "1">>
    /\ ret.DetectedVia = "X-Real-IP"

\* C2: the address ExtractClientIP takes from a header is the first entry
\* of that header, from left to right, that is valid once trimmed, in its
\* trimmed form: every entry before it is invalid, and no later entry is
\* returned in its place.
C2_ListFirstValid ==
    (op = "ExtractClientIP" /\ ret.DetectedVia # "RemoteAddr") =>
        \A E \in {HeaderEntries} :
            \E h \in DOMAIN E :
                /\ PriorityTable[h] = ret.DetectedVia
                /\ \E k \in DOMAIN E[h] :
                      /\ IsValid(E[h][k])
                      /\ \A j \in 1..(k - 1) : ~IsValid(E[h][j])
                      /\ ret.ClientIP = E[h][k]
                /\ ~isSpace(ret.ClientIP[1])
                /\ ~isSpace(ret.ClientIP[Len(ret.ClientIP)])

\* C2, its case: "invalid, 192.168.1.1 " gives the second entry, trimmed
C2_Witness ==
    /\ op = "ExtractClientIP"
    /\ Get(Header, "X-Forwarded-For") = <<"i", "n", "v", "a", "l", "i", "d", ",", " ", "1", "9", "2", ".", "1", "6", "8", ".", "1", ".", "1", " ">>
    /\ ret.ClientIP = <<"1", "9", "2", ".", "1", "6", "8", ".", "1", ".", "1">>
    /\ ret.DetectedVia = "X-Forwarded-For"

\* C3: when no priority header holds a valid entry and the peer address is
\* host:port or [host]:port, ExtractClientIP returns the host, without port
\* and brackets, and "RemoteAddr", whether the host is an address or not.
C3_PeerFallback ==
    (op = "ExtractClientIP" /\ RanksWith(HeaderEntries, IsValid) = {}) =>
        \A i \in 1..Len(RemoteAddr) :
            /\ PlainHostPort(RemoteAddr, i) =>
                  /\ ret.ClientIP = SubSeq(RemoteAddr, 1, i - 1)
                  /\ ret.DetectedVia = "RemoteAddr"
            /\ BracketHostPort(RemoteAddr, i) =>
                  /\ ret.ClientIP = SubSeq(RemoteAddr, 2, i - 2)
                  /\ ret.DetectedVia = "RemoteAddr"

\* C3, its case: the host of "[2001:db8::1]:8080" behind an invalid header
C3_Witness ==
    /\ op = "ExtractClientIP"
    /\ Get(Header, "X-Forwarded-For") = <<"i", "n", "v", "a", "l", "i", "d">>
    /\ RemoteAddr = <<"[", "2", "0", "0", "1", ":", "d", "b", "8", ":", ":", "1", "]", ":", "8", "0", "8", "0">>
    /\ ret.ClientIP = <<"2", "0", "0", "1", ":", "d", "b", "8", ":", ":", "1">>
    /\ ret.DetectedVia = "RemoteAddr"

\* C4: when no priority header holds a valid entry and the peer address
\* does not split as host:port, ExtractClientIP returns the peer address
\* as it is, and "RemoteAddr".
C4_MalformedPeer ==
    (/\ op = "ExtractClientIP"
     /\ RanksWith(HeaderEntries, IsValid) = {}
     /\ ~SplitsAsHostPort(RemoteAddr)) =>
        /\ ret.ClientIP = RemoteAddr
        /\ ret.DetectedVia = "RemoteAddr"

\* C4, its case: the bare token "malformed-addr"
C4_Witness ==
    /\ op = "ExtractClientIP"
    /\ RemoteAddr = <<"m", "a", "l", "f", "o", "r", "m", "e", "d", "-", "a", "d", "d", "r">>
    /\ ret.ClientIP = <<"m", "a", "l", "f", "o", "r", "m", "e", "d", "-", "a", "d", "d", "r">>
    /\ ret.DetectedVia = "RemoteAddr"

\* no priority header of the request has a value
NoPriorityHeader == \A h \in 1..Len(PriorityTable) : Get(Header, PriorityTable[h]) = <<>>

\* C5: a non-empty result of FindIPv4 is a valid address with a 4-byte
\* form, a non-empty result of FindIPv6 a valid address without one,
\* whether it comes from a header or from the peer address; so GetInfo
\* never has the same string in both fields.
C5_FamilyExclusive ==
    /\ (op \in {"FindIPv4", "GetInfo"} /\ ret.IPv4Address # <<>>) =>
          /\ ParseIP(ret.IPv4Address) # NilIP
          /\ Len(To4(ParseIP(ret.IPv4Address))) = 4
    /\ (op \in {"FindIPv6", "GetInfo"} /\ ret.IPv6Address # <<>>) =>
          /\ ParseIP(ret.IPv6Address) # NilIP
          /\ To4(ParseIP(ret.IPv6Address)) = NilIP
    /\ (op = "GetInfo" /\ ret.IPv4Address # <<>>) =>
          ret.IPv4Address # ret.IPv6Address

\* C5, its case: an IPv4 address from a header and an IPv6 address from the
\* peer address, in one record
C5_Witness ==
    /\ op = "GetInfo"
    /\ Get(Header, "X-Forwarded-For") = <<"2", "0", "3", ".", "0", ".", "1", "1", "3", ".", "1">>
    /\ RemoteAddr = <<"[", "2", "0", "0", "1", ":", "d", "b", "8", ":", ":", "1", "]", ":", "8", "0", "8", "0">>
    /\ ret.IPv4Address = <<"2", "0", "3", ".", "0", ".", "1", "1", "3", ".", "1">>
    /\ ret.IPv6Address = <<"2", "0", "0", "1", ":", "d", "b", "8", ":", ":", "1">>

\* C6: FindIPv4 (FindIPv6) returns the first entry of its family, the
\* headers taken in table order and the entries of a header from left to
\* right; entries of the other family and invalid entries before it do not
\* stop the scan: "2001:db8::1, 203.0.113.1" gives both.
C6_FamilyScanOrder ==
    \A E \in {HeaderEntries} :
        /\ op \in {"FindIPv4", "GetInfo"} =>
              \A h \in DOMAIN E : \A k \in DOMAIN E[h] :
                  FirstPlace(E, IsV4, h, k) => ret.IPv4Address = E[h][k]
        /\ op \in {"FindIPv6", "GetInfo"} =>
              \A h \in DOMAIN E : \A k \in DOMAIN E[h] :
                  FirstPlace(E, IsV6, h, k) => ret.IPv6Address = E[h][k]
        /\ (op = "GetInfo" /\ E[4] = <<<<"2", "0", "0", "1", ":", "d", "b", "8", ":", ":", "1">>, <<"2", "0", "3", ".", "0", ".", "1", "1", "3", ".", "1">>>>
               /\ RanksWith(E, IsValid) = {4}) =>
              /\ ret.IPv4Address = <<"2", "0", "3", ".", "0", ".", "1", "1", "3", ".", "1">>
              /\ ret.IPv6Address = <<"2", "0", "0", "1", ":", "d", "b", "8", ":", ":", "1">>

\* C6, its case: the IPv4 address is the second entry of X-Forwarded-For,
\* behind the IPv6 address that ExtractClientIP returns
C6_Witness ==
    /\ op = "GetInfo"
    /\ Get(Header, "X-Forwarded-For") = <<"2", "0", "0", "1", ":", "d", "b", "8", ":", ":", "1", ",", " ", "2", "0", "3", ".", "0", ".", "1", "1", "3", ".", "1">>
    /\ ret.ClientIP = <<"2", "0", "0", "1", ":", "d", "b", "8", ":", ":", "1">>
    /\ ret.IPv4Address = <<"2", "0", "3", ".", "0", ".", "1", "1", "3", ".", "1">>
    /\ ret.IPv6Address = <<"2", "0", "0", "1", ":", "d", "b", "8", ":", ":", "1">>

\* C7: FindIPv4 (FindIPv6) returns "" exactly when no priority header holds
\* a valid entry of the family and the peer host is no valid address of
\* the family; with such an entry in a header the result is a header
\* entry, and without one it is the peer host if that is of the family.
C7_NotFound ==
    \A E \in {HeaderEntries} : \A host \in {PeerHost(RemoteAddr)} :
        /\ op = "FindIPv4" =>
              /\ (ret.IPv4Address = <<>>) <=>
                     (RanksWith(E, IsV4) = {} /\ ~IsV4(host))
              /\ RanksWith(E, IsV4) # {} =>
                     \E h \in DOMAIN E : \E k \in DOMAIN E[h] : ret.IPv4Address = E[h][k]
              /\ (RanksWith(E, IsV4) = {} /\ IsV4(host)) => ret.IPv4Address = host
        /\ op = "FindIPv6" =>
              /\ (ret.IPv6Address = <<>>) <=>
                     (RanksWith(E, IsV6) = {} /\ ~IsV6(host))
              /\ RanksWith(E, IsV6) # {} =>
                     \E h \in DOMAIN E : \E k \in DOMAIN E[h] : ret.IPv6Address = E[h][k]
              /\ (RanksWith(E, IsV6) = {} /\ IsV6(host)) => ret.IPv6Address = host

\* C7, its case: a header with an IPv6 address only and an IPv6 peer:
\* FindIPv4 finds nothing
C7_Witness ==
    /\ op = "FindIPv4"
    /\ Get(Header, "X-Real-IP") = <<"2", "0", "0", "1", ":", "d", "b", "8", ":", ":", "1">>
    /\ RemoteAddr = <<"[", "2", "0", "0", "1", ":", "d", "b", "8", ":", ":", "1", "]", ":", "8", "0", "8", "0">>
    /\ ret.IPv4Address = <<>>

\* C8 as it is written: with no priority header and a peer address whose
\* host is no valid address, GetInfo gives ClientIP = the raw peer
\* address, DetectedVia = "RemoteAddr", both family fields empty and
\* IsPrivateIP = false.
C8_AsWritten ==
    (op = "GetInfo" /\ NoPriorityHeader /\ ~IsValid(PeerHost(RemoteAddr))) =>
        /\ ret.ClientIP = RemoteAddr
        /\ ret.DetectedVia = "RemoteAddr"
        /\ ret.IPv4Address = <<>>
        /\ ret.IPv6Address = <<>>
        /\ ret.IsPrivateIP = FALSE

\* C8, amended: with no priority header and a peer address whose host is
\* no valid address, GetInfo gives ClientIP = the peer host (the raw peer
\* address if it does not split as host:port, else its host part),
\* DetectedVia = "RemoteAddr", both family fields empty and IsPrivateIP =
\* false.
C8_Degenerate ==
    (op = "GetInfo" /\ NoPriorityHeader /\ ~IsValid(PeerHost(RemoteAddr))) =>
        /\ ret.ClientIP = PeerHost(RemoteAddr)
        /\ ~SplitsAsHostPort(RemoteAddr) => ret.ClientIP = RemoteAddr
        /\ ret.DetectedVia = "RemoteAddr"
        /\ ret.IPv4Address = <<>>
        /\ ret.IPv6Address = <<>>
        /\ ret.IsPrivateIP = FALSE

\* C8, its case: the peer address "malformed-addr" and no headers
C8_Witness ==
    /\ op = "GetInfo"
    /\ Header = NoHeaders
    /\ RemoteAddr = <<"m", "a", "l", "f", "o", "r", "m", "e", "d", "-", "a", "d", "d", "r">>
    /\ ret.ClientIP = <<"m", "a", "l", "f", "o", "r", "m", "e", "d", "-", "a", "d", "d", "r">>
    /\ ret.DetectedVia = "RemoteAddr"
    /\ ret.IPv4Address = <<>>
    /\ ret.IPv6Address = <<>>
    /\ ret.IsPrivateIP = FALSE

\* the IPv4 address of the octets o lies in 10.0.0.0/8, 172.16.0.0/12,
\* 192.168.0.0/16, 169.254.0.0/16 or 127.0.0.0/8
InPrivateV4(o) ==
    \/ o[1] = 10
    \/ o[1] = 172 /\ o[2] >= 16 /\ o[2] <= 31
    \/ o[1] = 192 /\ o[2] = 168
    \/ o[1] = 169 /\ o[2] = 254
    \/ o[1] = 127

\* the IPv6 address of the groups g lies in fc00::/7 (fc00 to fdff in
\* front), fe80::/10 (fe80 to febf in front) or is ::1
InPrivateV6(g) ==
    \/ g[1] >= 64512 /\ g[1] <= 65023
    \/ g[1] >= 65152 /\ g[1] <= 65215
    \/ g = <<0, 0, 0, 0, 0, 0, 0, 1>>

\* C9: IsPrivate is true of a valid address exactly when it lies in a
\* prefix of the table of its family, with the exact borders: 172.16.0.0
\* and 172.31.255.255 are private, 172.15.255.255 and 172.32.0.0 are not;
\* fdff:ffff:... and febf:ffff:... are private, ff00:: and 2001:db8:: are
\* not; an IPv4 address in IPv6 notation goes by the IPv4 table.
C9_PrivateRanges ==
    op = "IsPrivate" =>
        /\ \A o \in V4Octets :
              arg = IPv4String(o) => (ret.IsPrivateIP <=> InPrivateV4(o))
        /\ \A g \in V6Groups :
              arg = IPv6String(g) => (ret.IsPrivateIP <=> InPrivateV6(g))
        /\ arg \in {<<":", ":", "1">>, <<"f", "c", "0", "0", ":", ":">>, <<"f", "e", "8", "0", ":", ":">>, <<":", ":", "f", "f", "f", "f", ":", "1", "0", ".", "0", ".", "0", ".", "1">>} => ret.IsPrivateIP
        /\ arg \in {<<"2", "0", "0", "1", ":", "d", "b", "8", ":", ":">>, <<"f", "f", "0", "0", ":", ":">>, <<":", ":">>, <<":", ":", "f", "f", "f", "f", ":", "8", ".", "8", ".", "8", ".", "8">>} => ~ret.IsPrivateIP

\* C9, its case: the last address of 172.16.0.0/12
C9_Witness ==
    /\ op = "IsPrivate"
    /\ arg = <<"1", "7", "2", ".", "3", "1", ".", "2", "5", "5", ".", "2", "5", "5">>
    /\ ret.IsPrivateIP = TRUE

\* C10: IsPrivate is false of the empty string and of every string that is
\* no IPv4 and no IPv6 address, such as "invalid", "999.999.999.999",
\* "gggg::1", an address with a port or in brackets.
C10_PrivateBadInput ==
    (op = "IsPrivate" /\ (arg \in NotAddresses \/ ~IsValid(arg))) =>
        ret.IsPrivateIP = FALSE

\* C10, its case: a private address with a port
C10_Witness ==
    /\ op = "IsPrivate"
    /\ arg = <<"1", "0", ".", "0", ".", "0", ".", "1", ":", "8", "0", "8", "0">>
    /\ ret.IsPrivateIP = FALSE

\* ------------------------------------------------------------------------
\* C11
\* ------------------------------------------------------------------------

\* the header names IsCloudflareRequest is said to look at
CloudflareHeaders == {"CF-Connecting-IP", "CF-Ray", "True-Client-IP"}

\* C11 as stated: IsCloudflareRequest is true exactly when at least one of
\* CF-Connecting-IP, CF-Ray, True-Client-IP has a non-empty value in the
\* request, whatever that value, the other headers and the peer address are
C11_AsWritten ==
    op = "IsCloudflareRequest" =>
        (ret.IsCloudflare <=>
            \E h \in CloudflareHeaders : \E i \in DOMAIN Header[h] : Header[h][i] # <<>>)

\* C11 amended: IsCloudflareRequest is true exactly when the first
\* occurrence of at least one of CF-Connecting-IP, CF-Ray, True-Client-IP
\* has a non-empty value, whatever that value, the later occurrences, the
\* other headers and the peer address are
C11_FirstOccurrence ==
    op = "IsCloudflareRequest" =>
        (ret.IsCloudflare <=>
            \E h \in CloudflareHeaders : Header[h] # <<>> /\ Header[h][1] # <<>>)

\* CF-Ray: "garbage" alone, which is no address, has given true
C11_Witness ==
    /\ op = "IsCloudflareRequest"
    /\ Header["CF-Ray"] = << <<"g", "a", "r", "b", "a", "g", "e">> >>
    /\ Header["CF-Connecting-IP"] = <<>>
    /\ Header["True-Client-IP"] = <<>>
    /\ ret.IsCloudflare

\* ------------------------------------------------------------------------
\* C12
\* ------------------------------------------------------------------------

\* C12: the record GetInfo returns holds, field by field, what the other
\* operations return for the same request: ClientIP and DetectedVia are
\* the pair of ExtractClientIP, IPv4Address is FindIPv4, IPv6Address is
\* FindIPv6, IsPrivateIP is IsPrivate of ClientIP, IsCloudflare is
\* IsCloudflareRequest, UserAgent is the User-Agent header
C12_Aggregation ==
    op = "GetInfo" =>
        \A c \in {ExtractClientIP(Request)} :
            /\ ret.ClientIP = c.ip
            /\ ret.DetectedVia = c.via
            /\ ret.IPv4Address = FindIPv4(Request)
            /\ ret.IPv6Address = FindIPv6(Request)
            /\ ret.IsPrivateIP = IsPrivate(c.ip)
            /\ ret.IsCloudflare = IsCloudflareRequest(Request)
            /\ ret.UserAgent = (IF Header["User-Agent"] = <<>> THEN <<>>
                                ELSE Header["User-Agent"][1])

\* a record whose ClientIP is a public IPv6 address and whose IPv4Address
\* is a private one, with the Cloudflare flag and a user agent
C12_Witness ==
    /\ op = "GetInfo"
    /\ IsV6(ret.ClientIP)
    /\ ret.IPv4Address # <<>>
    /\ IsPrivate(ret.IPv4Address)
    /\ ~ret.IsPrivateIP
    /\ ret.IsCloudflare
    /\ ret.UserAgent # <<>>

\* ------------------------------------------------------------------------
\* C16, C17, C18
\* ------------------------------------------------------------------------

\* the place of the first x in the list l
FirstIndex(l, x) == CHOOSE k \in DOMAIN l : l[k] = x /\ \A m \in 1..(k - 1) : l[m] # x

\* no string is twice in the list l
NoRepeats(l) == \A i, j \in DOMAIN l : i # j => l[i] # l[j]

\* the strings of the list l
Elements(l) == {l[i] : i \in DOMAIN l}

\* C16: the list RemoveDuplicates returns has no string twice, has the
\* strings of its argument and no other, and has them in the order in
\* which they first come in the argument; the empty string is a string
\* like the others
C16_FirstOccurrences ==
    op = "RemoveDuplicates" =>
        LET in  == slice.items
            out == ret.Slice.items
        IN  /\ NoRepeats(out)
            /\ Elements(out) = Elements(in)
            /\ \A i, j \in DOMAIN out :
                   i < j => FirstIndex(in, out[i]) < FirstIndex(in, out[j])

\* the list "", "test", "" has given "", "test"
C16_Witness ==
    /\ op = "RemoveDuplicates"
    /\ slice.items = << <<>>, <<"t", "e", "s", "t">>, <<>> >>
    /\ ret.Slice.items = << <<>>, <<"t", "e", "s", "t">> >>

\* C17: RemoveDuplicates returns a list without repeated strings as it
\* is, and returns its own result as it is
C17_Idempotent ==
    /\ (op = "RemoveDuplicates" /\ NoRepeats(slice.items)) => ret.Slice = slice
    /\ op = "RemoveDuplicatesAgain" => ret.Again = ret.Slice

\* a list of three strings was cut to two, and the second call has
\* returned the two
C17_Witness ==
    /\ op = "RemoveDuplicatesAgain"
    /\ Len(slice.items) = 3
    /\ Len(ret.Slice.items) = 2
    /\ Len(ret.Again.items) = 2

\* C18: RemoveDuplicates returns nil for nil, an empty list that is not
\* nil for such a list, and a list that is neither nil nor empty for a
\* list that is not empty
C18_Shape ==
    op = "RemoveDuplicates" =>
        /\ slice.nil => ret.Slice.nil
        /\ (~slice.nil /\ slice.items = <<>>) => (~ret.Slice.nil /\ ret.Slice.items = <<>>)
        /\ slice.items # <<>> => (~ret.Slice.nil /\ ret.Slice.items # <<>>)

\* the empty list that is not nil has given an empty list that is not nil
C18_Witness ==
    /\ op = "RemoveDuplicates"
    /\ ~slice.nil
    /\ slice.items = <<>>
    /\ ~ret.Slice.nil
    /\ ret.Slice.items = <<>>

\* ------------------------------------------------------------------------
\* C15
\* ------------------------------------------------------------------------

\* the three tables as the source lists them
FullTables == <<headerPriorityInit, privateIPRangesInit, privateIPv6RangesInit>>

\* the program text has a CIDR literal that is none
HasMalformedLiteral == cidrs # SourceCIDRs

\* C15: an operation runs on a request only when the three tables are
\* built in full; a process whose text has a malformed CIDR literal ends
\* in its initialisation and serves no request, and only such a process
\* ends; and once requests are served no step changes a table, whatever
\* operations run on whatever requests
C15_ConstantTables ==
    /\ [](op # "" => (proc = "serving" /\ tables = FullTables))
    /\ [](proc = "serving" => (tables = FullTables /\ ~HasMalformedLiteral))
    /\ [](proc = "exited" => (HasMalformedLiteral /\ op = ""))
    /\ [][proc = "serving" => tables' = tables]_vars

\* an operation has run on a request with a header, in a process with its
\* tables in full
C15_Witness ==
    /\ proc = "serving"
    /\ op = "IsPrivate"
    /\ Header # NoHeaders
    /\ tables = FullTables

\* ------------------------------------------------------------------------
\* C13
\* ------------------------------------------------------------------------

\* s is a string
IsString(s) == s \in Seq(STRING)

\* the labels of a detection
Labels == {headerPriorityInit[i] : i \in 1..Len(headerPriorityInit)} \cup {"RemoteAddr"}

\* info is a record of GetInfo with a value in every field
IsInfo(info) ==
    /\ IsString(info.ClientIP)
    /\ info.DetectedVia \in Labels
    /\ IsString(info.IPv4Address)
    /\ IsString(info.IPv6Address)
    /\ IsString(info.UserAgent)
    /\ {info.IsPrivateIP, info.IsCloudflare} \subseteq BOOLEAN

\* l is a list of strings, or nil
IsSlice(l) ==
    /\ l.nil \in BOOLEAN
    /\ \A k \in DOMAIN l.items : IsString(l.items[k])

\* C13: on every request, string and list, each of the eight operations
\* returns, and what it returns is a value of its type (a string, a truth
\* value, a label, a list of strings), also for a request without headers
\* and for a peer address that is empty or no address
C13_Totality ==
    /\ (proc = "serving" /\ op = "") =>
          /\ \A c \in {ExtractClientIP(Request)} : IsString(c.ip) /\ c.via \in Labels
          /\ IsString(FindIPv4(Request))
          /\ IsString(FindIPv6(Request))
          /\ IsPrivate(arg) \in BOOLEAN
          /\ IsCloudflareRequest(Request) \in BOOLEAN
          /\ IsValid(arg) \in BOOLEAN
          /\ IsSlice(RemoveDuplicates(slice))
          /\ \A info \in {GetInfo(Request)} : IsInfo(info)
    /\ op \in {"ExtractClientIP", "GetInfo"} => ret.DetectedVia \in Labels
    /\ op # "" =>
          /\ IsString(ret.ClientIP)
          /\ IsString(ret.IPv4Address)
          /\ IsString(ret.IPv6Address)
          /\ IsString(ret.UserAgent)
          /\ {ret.IsPrivateIP, ret.IsCloudflare, ret.Valid} \subseteq BOOLEAN
          /\ IsSlice(ret.Slice)

\* GetInfo has returned for a request without headers and with an empty
\* peer address
C13_Witness ==
    /\ op = "GetInfo"
    /\ Header = NoHeaders
    /\ RemoteAddr = <<>>
    /\ ret.ClientIP = <<>>
    /\ ret.DetectedVia = "RemoteAddr"

\* ------------------------------------------------------------------------
\* C14
\* ------------------------------------------------------------------------

\* C14: whatever the order in which the statements of the calls of
\* GetInfo that run at the same time are taken, every call returns the
\* record GetInfo gives for its request alone, and every step leaves the
\* three tables and the variables of all calls but one as they are
C14_Isolation ==
    /\ [](\A i \in DOMAIN calls :
            calls[i].pc = "done" => calls[i].info = GetInfo(calls[i].r))
    /\ [][/\ tables' = tables
          /\ \E i \in DOMAIN calls :
                \A j \in DOMAIN calls \ {i} : calls'[j] = calls[j]]_vars

\* all calls have returned, the first two with different records
C14_Witness ==
    /\ calls # <<>>
    /\ \A i \in DOMAIN calls : calls[i].pc = "done"
    /\ calls[1].info # calls[2].info
    /\ calls[1].info.IPv4Address # <<>>

\* ------------------------------------------------------------------------
\* C19, C20
\* ------------------------------------------------------------------------

\* the list part is somewhere in the list whole
HasPart(whole, part) ==
    \E k \in 0..(Len(whole) - Len(part)) : SubSeq(whole, k + 1, k + Len(part)) = part

\* the member "ip":"<addr>" of a JSON object
IPMember(addr) == <<"\"", "i", "p", "\"", ":", "\"">> \o addr \o <<"\"">>

\* the body carries the address addr and no other: it is the address, or
\* has it as the ip member of its one JSON object
Carries(body, addr) ==
    \/ body = addr
    \/ /\ HasPart(body, <<"{">> \o IPMember(addr) \o <<"}">>)
       /\ Len(SelectSeq(body, LAMBDA c : c = "{")) = 1

\* C19: IPv4Handler answers 404 exactly when FindIPv4 returns the empty
\* string for the request, IPv6Handler exactly when FindIPv6 does,
\* whatever the format and callback parameters are; else the status is
\* 200 and the body carries the address the filter returned
C19_NotFoundMapping ==
    /\ op = "IPv4Handler" =>
          \A ipv4 \in {FindIPv4(Request)} :
              /\ w.Code = 404 <=> ipv4 = <<>>
              /\ ipv4 # <<>> => (w.Code = 200 /\ Carries(w.Body, ipv4))
    /\ op = "IPv6Handler" =>
          \A ipv6 \in {FindIPv6(Request)} :
              /\ w.Code = 404 <=> ipv6 = <<>>
              /\ ipv6 # <<>> => (w.Code = 200 /\ Carries(w.Body, ipv6))

\* IPv4Handler has answered 404 to a request for JSON whose only
\* addresses are IPv6 addresses
C19_Witness ==
    /\ op = "IPv4Handler"
    /\ w.Code = 404
    /\ Header["X-Forwarded-For"] = << PiecePool[3] >>
    /\ RemoteAddr = <<"[", "2", "0", "0", "1", ":", "d", "b", "8", ":", ":", "1", "]", ":", "8", "0", "8", "0">>
    /\ Query.format = << <<"j", "s", "o", "n">> >>

\* the letters of s in lower case
ToLower(s) ==
    [k \in DOMAIN s |->
        CASE s[k] = "J" -> "j" [] s[k] = "S" -> "s" [] s[k] = "O" -> "o"
          [] s[k] = "N" -> "n" [] s[k] = "P" -> "p" [] OTHER -> s[k]]

\* the format parameter and the callback parameter of the request
FormatParam == IF Query.format = <<>> THEN <<>> ELSE Query.format[1]
CallbackParam == IF Query.callback = <<>> THEN <<>> ELSE Query.callback[1]

\* C20: when the address addr is found, the response is JSONP, that is
\* application/javascript with the body <name>({"ip":"<addr>"}); where
\* the name is the callback parameter or "callback", exactly when the
\* format parameter is jsonp in any case of letters; else it is JSON,
\* application/json with {"ip":"<addr>"} and a line end, exactly when the
\* format parameter is json in any case of letters; else it is
\* text/plain with the address as the body. The callback parameter has
\* no part in the response unless the format is jsonp
C20_FormatSelection ==
    (op \in {"IPv4Handler", "IPv6Handler"} /\ w.Code # 404) =>
        \A addr \in {IF op = "IPv4Handler" THEN FindIPv4(Request) ELSE FindIPv6(Request)} :
            LET object == <<"{">> \o IPMember(addr) \o <<"}">>
                jsonp  == ToLower(FormatParam) = <<"j", "s", "o", "n", "p">>
                json   == ToLower(FormatParam) = <<"j", "s", "o", "n">>
            IN  /\ w.Code = 200
                /\ jsonp =>
                      /\ w.ContentType = "application/javascript"
                      /\ \E name \in {CallbackParam, <<"c", "a", "l", "l", "b", "a", "c", "k">>} :
                            /\ name # <<>>
                            /\ w.Body = name \o <<"(">> \o object \o <<")", ";">>
                /\ (~jsonp /\ json) =>
                      /\ w.ContentType = "application/json"
                      /\ w.Body = object \o <<"\n">>
                /\ (~jsonp /\ ~json) =>
                      /\ w.ContentType = "text/plain"
                      /\ w.Body = addr

\* IPv6Handler has answered a request with format=JsOnP and
\* callback=getip with a call of getip
C20_Witness ==
    /\ op = "IPv6Handler"
    /\ w.Code = 200
    /\ Query.format = << <<"J", "s", "O", "n", "P">> >>
    /\ Query.callback = << <<"g", "e", "t", "i", "p">> >>
    /\ w.ContentType = "application/javascript"
    /\ SubSeq(w.Body, 1, 6) = <<"g", "e", "t", "i", "p", "(">>

\* ------------------------------------------------------------------------
\* C21
\* ------------------------------------------------------------------------

\* the values of the callback parameter of the requests for JSONP: none,
\* an empty one, names that the pattern takes (letters, a leading dollar
\* sign and underscore, a path of names, digits after the first place, the
\* default name itself), names that it does not (a call, a tag, a leading
\* digit, a leading dot, a blank inside, a line end at the end, other
\* signs), names of MaxCallbackLen - 1, MaxCallbackLen and
\* MaxCallbackLen + 1 letters, and a second occurrence after a first
CallbackPool ==
    { <<>>,
      << <<>> >>,
      << <<"m", "y", "C", "a", "l", "l", "b", "a", "c", "k">> >>,
      << <<"$">> >>,
      << <<"_", "x", "9">> >>,
      << <<"w", "i", "n", "d", "o", "w", ".", "m", "y", ".", "c", "b", "_", "$", "1">> >>,
      << <<"c", "a", "l", "l", "b", "a", "c", "k">> >>,
      << <<"a", "l", "e", "r", "t", "(", "'", "X", "'", ")">> >>,
      << <<"<", "s", "c", "r", "i", "p", "t", ">">> >>,
      << <<"1", "2", "3", "c", "b">> >>,
      << <<".", "c", "b">> >>,
      << <<"m", "y", " ", "c", "b">> >>,
      << <<"c", "b", "\n">> >>,
      << <<"c", "b", "@", "#", "%">> >>,
      << [k \in 1..(MaxCallbackLen - 1) |-> "a"] >>,
      << [k \in 1..MaxCallbackLen |-> "Z"] >>,
      << [k \in 1..(MaxCallbackLen + 1) |-> "a"] >>,
      << <<"c", "b", ";">>, <<"g", "e", "t", "i", "p">> >>,
      << <<"g", "e", "t", "i", "p">>, <<"c", "b", ";">> >> }

\* requests for JSONP, in three spellings of the format, with the address
\* in X-Forwarded-For and without it
InitCallback ==
    /\ InitTables
    /\ Header \in {HeaderOf(<< <<4, x>> >>, PiecePool) : x \in {1, 3}}
    /\ RemoteAddr \in {DefaultPeer,
                       <<"[", "2", "0", "0", "1", ":", "d", "b", "8", ":", ":", "1", "]", ":", "8", "0", "8", "0">>}
    /\ \E f \in {<<"j", "s", "o", "n", "p">>, <<"J", "S", "O", "N", "P">>, <<"j", "s", "o", "n">>},
          c \in CallbackPool :
          Query = [format |-> <<f>>, callback |-> c]
    /\ w = NewRecorder
    /\ arg = <<>>
    /\ slice = NilSlice
    /\ calls = <<>>
    /\ op = ""
    /\ ret = NoResult

SpecCallback == InitCallback /\ [][NextHandlers]_vars

\* the letters, and the characters a name starts with and goes on with
NameLetters == LowerLetters \cup UpperLetters
NameStart == NameLetters \cup {"_", "$"}
NamePart == NameStart \cup Digits \cup {"."}

\* name is a function name: it is not empty, has at most 50 characters,
\* starts with a letter, an underscore or a dollar sign, and has only
\* letters, digits, underscores, dollar signs and dots after it
IsFunctionName(name) ==
    /\ Len(name) \in 1..50
    /\ Head(name) \in NameStart
    /\ {name[k] : k \in 2..Len(name)} \subseteq NamePart

\* the part of the body before the first opening bracket
WrittenName(body) == SubSeq(body, 1, IndexByte(body, "("))

\* C21: sanitizeCallback returns the callback parameter unchanged if and
\* only if it is a function name, and returns "callback" for every other
\* one; the name written in a JSONP response is a function name whatever
\* the callback parameter is
C21_Sanitised ==
    /\ \A out \in {sanitizeCallback(CallbackParam)} :
          /\ out = CallbackParam <=> (CallbackParam # <<>> /\ IsFunctionName(CallbackParam))
          /\ out # CallbackParam => out = <<"c", "a", "l", "l", "b", "a", "c", "k">>
    /\ (op \in {"IPv4Handler", "IPv6Handler"} /\ w.ContentType = "application/javascript") =>
          /\ IndexByte(w.Body, "(") > 0
          /\ IsFunctionName(WrittenName(w.Body))
          /\ WrittenName(w.Body) \in {CallbackParam, <<"c", "a", "l", "l", "b", "a", "c", "k">>}

\* a JSONP response is written for a callback parameter of more than 50
\* letters, and the name in it is "callback"
C21_Witness ==
    /\ op = "IPv4Handler"
    /\ w.ContentType = "application/javascript"
    /\ Len(CallbackParam) = 51
    /\ WrittenName(w.Body) = <<"c", "a", "l", "l", "b", "a", "c", "k">>

\* ------------------------------------------------------------------------
\* C22
\* ------------------------------------------------------------------------

\* the values of a header that holds no valid entry: none, an empty one,
\* a word, a list of words with an empty entry, a blank
SkippedValues ==
    { <<>>,
      << <<>> >>,
      << <<"i", "n", "v", "a", "l", "i", "d", "-", "i", "p">> >>,
      << <<"i", "n", "v", "a", "l", "i", "d", ",", " ", ",", "g", "a", "r", "b", "a", "g", "e">> >>,
      << <<" ">> >> }

\* the values of the header below it: none, an address, a word before an
\* address, a word
LowerValues ==
    { <<>>,
      << <<"2", "0", "3", ".", "0", ".", "1", "1", "3", ".", "1">> >>,
      << <<"b", "a", "d", ",", " ", "2", "0", "0", "1", ":", "d", "b", "8", ":", ":", "1">> >>,
      << <<"b", "a", "d">> >> }

\* the peer addresses of these requests
SkipPeers ==
    { <<"1", "9", "2", ".", "1", "6", "8", ".", "1", ".", "1", ":", "1", "2", "3", "4", "5">>,
      <<"[", "2", "0", "0", "1", ":", "d", "b", "8", ":", ":", "1", "]", ":", "8", "0", "8", "0">>,
      <<"m", "a", "l", "f", "o", "r", "m", "e", "d", "-", "a", "d", "d", "r">> }

\* requests with a header that holds no valid entry above another header
InitSkip ==
    /\ InitTables
    /\ \E a \in {1, 3, 4}, b \in {4, 5, 9}, hi \in SkippedValues, lo \in LowerValues :
          /\ a < b
          /\ Header = [name \in HeaderNames |->
                         IF name = headerPriorityInit[a] THEN hi
                         ELSE IF name = headerPriorityInit[b] THEN lo
                         ELSE <<>>]
    /\ RemoteAddr \in SkipPeers
    /\ Query = NoQuery
    /\ w = NewRecorder
    /\ arg = <<>>
    /\ slice = NilSlice
    /\ calls = <<>>
    /\ op = ""
    /\ ret = NoResult

SpecSkip == InitSkip /\ [][Next]_vars

\* the header of rank h holds no valid entry: it is absent, or empty, or
\* none of its entries is an address
NoValidEntry(h) == \A k \in DOMAIN HeaderEntries[h] : ~IsValid(HeaderEntries[h][k])

\* the request without its header of rank h
WithoutHeader(h) == [Request EXCEPT !.Header[PriorityTable[h]] = <<>>]

\* C22: a priority header that is absent, empty or without a valid entry
\* does not end the scan of ExtractClientIP: the result is the one of the
\* request without that header, it is taken from the first header that
\* has a valid entry, and from the peer address when no header has one
C22_SkipAhead ==
    op = "ExtractClientIP" =>
        /\ \A h \in 1..Len(PriorityTable) :
              NoValidEntry(h) =>
                  ExtractClientIP(WithoutHeader(h)) = [ip |-> ret.ClientIP, via |-> ret.DetectedVia]
        /\ \A h \in 1..Len(PriorityTable) :
              (~NoValidEntry(h) /\ \A g \in 1..(h - 1) : NoValidEntry(g)) =>
                  /\ ret.DetectedVia = PriorityTable[h]
                  /\ \E k \in DOMAIN HeaderEntries[h] :
                        IsValid(HeaderEntries[h][k]) /\ ret.ClientIP = HeaderEntries[h][k]
        /\ (\A h \in 1..Len(PriorityTable) : NoValidEntry(h)) =>
              /\ ret.DetectedVia = "RemoteAddr"
              /\ ret.ClientIP = PeerHost(RemoteAddr)

\* X-Forwarded-For: "invalid-ip" with the peer 192.168.1.1:12345 gives
\* 192.168.1.1 and "RemoteAddr"
C22_Witness ==
    /\ op = "ExtractClientIP"
    /\ Header["X-Forwarded-For"] = << <<"i", "n", "v", "a", "l", "i", "d", "-", "i", "p">> >>
    /\ \A h \in 1..Len(PriorityTable) : NoValidEntry(h)
    /\ RemoteAddr = <<"1", "9", "2", ".", "1", "6", "8", ".", "1", ".", "1", ":", "1", "2", "3", "4", "5">>
    /\ ret.ClientIP = <<"1", "9", "2", ".", "1", "6", "8", ".", "1", ".", "1">>
    /\ ret.DetectedVia = "RemoteAddr"

\* ------------------------------------------------------------------------
\* C23
\* ------------------------------------------------------------------------

\* C23: when the peer address does not split as host:port and no header
\* holds an entry of the family, FindIPv4 returns the whole peer address
\* if it is an address with a 4-byte form and "" if not, and FindIPv6 the
\* whole peer address if it is an address without a 4-byte form and ""
\* if not: "192.168.1.1" and "2001:db8::1" are returned as they are
C23_PortlessPeer ==
    ~SplitsAsHostPort(RemoteAddr) =>
        /\ (op = "FindIPv4" /\ RanksWith(HeaderEntries, IsV4) = {}) =>
              /\ ret.IPv4Address = (IF IsV4(RemoteAddr) THEN RemoteAddr ELSE <<>>)
              /\ RemoteAddr = <<"1", "9", "2", ".", "1", "6", "8", ".", "1", ".", "1">>
                    => ret.IPv4Address = RemoteAddr
        /\ (op = "FindIPv6" /\ RanksWith(HeaderEntries, IsV6) = {}) =>
              /\ ret.IPv6Address = (IF IsV6(RemoteAddr) THEN RemoteAddr ELSE <<>>)
              /\ RemoteAddr = <<"2", "0", "0", "1", ":", "d", "b", "8", ":", ":", "1">>
                    => ret.IPv6Address = RemoteAddr

\* FindIPv4 has returned the peer address "192.168.1.1", which has no
\* port, for a request whose one header holds an IPv6 address
C23_Witness ==
    /\ op = "FindIPv4"
    /\ RemoteAddr = <<"1", "9", "2", ".", "1", "6", "8", ".", "1", ".", "1">>
    /\ Get(Header, "X-Forwarded-For") = <<"2", "0", "0", "1", ":", "d", "b", "8", ":", ":", "1">>
    /\ ret.IPv4Address = <<"1", "9", "2", ".", "1", "6", "8", ".", "1", ".", "1">>

\* ------------------------------------------------------------------------
\* C24
\* ------------------------------------------------------------------------

\* the headers of the requests whose answers may fail to be written:
\* X-Real-IP with an IPv4 address, with an IPv6 address, and none
WriterHeaders ==
    { [NoHeaders EXCEPT !["X-Real-IP"] =
          << <<"1", "9", "2", ".", "1", "6", "8", ".", "1", ".", "1", "0", "0">> >>],
      [NoHeaders EXCEPT !["X-Real-IP"] =
          << <<"2", "0", "0", "1", ":", "d", "b", "8", ":", ":", "1">> >>],
      NoHeaders }

\* the values of their format parameter
WriterFormats ==
    { <<>>,
      << <<"j", "s", "o", "n">> >>,
      << <<"J", "S", "O", "N">> >>,
      << <<"j", "s", "o", "n", "p">> >>,
      << <<"x", "m", "l">> >> }

\* requests on a connection that takes the answer, and on one whose
\* writes fail
InitWriter ==
    /\ InitTables
    /\ Header \in WriterHeaders
    /\ RemoteAddr \in HandlerPeers
    /\ \E f \in WriterFormats : Query = [format |-> f, callback |-> <<>>]
    /\ w \in {NewRecorder, BrokenWriter}
    /\ arg = <<>>
    /\ slice = NilSlice
    /\ calls = <<>>
    /\ op = ""
    /\ ret = NoResult

\* the four handlers that answer with JSON
NextWriter ==
    \/ DoIPv4Handler
    \/ DoIPv6Handler
    \/ DoJSONHandler
    \/ DoHealthHandler

SpecWriter == InitWriter /\ [][NextWriter]_vars

\* the handler has tried to write a JSON body: JSONHandler and
\* HealthHandler always, IPv4Handler and IPv6Handler when the format is
\* json and the address is found
WroteJSON ==
    \/ op \in {"JSONHandler", "HealthHandler"}
    \/ /\ op = "IPv4Handler"
       /\ ToLower(FormatParam) = <<"j", "s", "o", "n">>
       /\ IsV4(Get(Header, "X-Real-IP")) \/ IsV4(PeerHost(RemoteAddr))
    \/ /\ op = "IPv6Handler"
       /\ ToLower(FormatParam) = <<"j", "s", "o", "n">>
       /\ IsV6(Get(Header, "X-Real-IP")) \/ IsV6(PeerHost(RemoteAddr))

RecordPeers ==
    { DefaultPeer,
      <<"[", "2", "0", "0", "1", ":", "d", "b", "8", ":", ":", "1", "]", ":", "8", "0", "8", "0">>,
      <<"m", "a", "l", "f", "o", "r", "m", "e", "d", "-", "a", "d", "d", "r">>,
      <<"2", "0", "0", "1", ":", "d", "b", "8", ":", ":", "1">> }

\* requests with varied headers and varied peers
InitRecord ==
    /\ InitTables
    /\ Header \in Requests(MaxPieces, PiecePool)
    /\ RemoteAddr \in RecordPeers
    /\ Query = NoQuery
    /\ w = NewRecorder
    /\ arg = <<>>
    /\ slice = NilSlice
    /\ calls = <<>>
    /\ op = ""
    /\ ret = NoResult

SpecRecord == InitRecord /\ [][NextCloudflare]_vars

\* C25: in the record of GetInfo, a ClientIP that is a valid address is
\* the IPv4Address when it has a 4-byte form and the IPv6Address when it
\* has none; and the two addresses are both empty if and only if the
\* ClientIP is no valid address
C25_RecordConsistent ==
    op = "GetInfo" =>
        /\ IsV4(ret.ClientIP) => ret.ClientIP = ret.IPv4Address
        /\ IsV6(ret.ClientIP) => ret.ClientIP = ret.IPv6Address
        /\ (ret.IPv4Address = <<>> /\ ret.IPv6Address = <<>>) <=> ~IsValid(ret.ClientIP)

\* the ClientIP is the IPv6 address of a header and the IPv6Address, and
\* the IPv4Address is another address, found behind it
C25_Witness ==
    /\ op = "GetInfo"
    /\ Get(Header, "X-Forwarded-For") = <<"2", "0", "0", "1", ":", "d", "b", "8", ":", ":", "1", ",", " ", "2", "0", "3", ".", "0", ".", "1", "1", "3", ".", "1">>
    /\ RemoteAddr = <<"m", "a", "l", "f", "o", "r", "m", "e", "d", "-", "a", "d", "d", "r">>
    /\ ret.ClientIP = ret.IPv6Address
    /\ ret.IPv4Address = <<"2", "0", "3", ".", "0", ".", "1", "1", "3", ".", "1">>

\* ------------------------------------------------------------------------
\* C26
\* ------------------------------------------------------------------------

\* C26: the label ExtractClientIP returns is one of the nine names of the
\* Priority Table or "RemoteAddr"; it is "RemoteAddr" if and only if no
\* priority header holds a valid entry; and when it is a header name, the
\* address returned is valid and is one of the trimmed entries of the
\* value of that header
C26_LabelMeaning ==
    op = "ExtractClientIP" =>
        /\ ret.DetectedVia \in {PriorityTable[h] : h \in 1..Len(PriorityTable)} \cup {"RemoteAddr"}
        /\ ret.DetectedVia = "RemoteAddr" <=>
              (\A h \in 1..Len(PriorityTable) : \A k \in DOMAIN HeaderEntries[h] :
                  ParseIP(HeaderEntries[h][k]) = NilIP)
        /\ \A h \in 1..Len(PriorityTable) :
              ret.DetectedVia = PriorityTable[h] =>
                  /\ ParseIP(ret.ClientIP) # NilIP
                  /\ ret.ClientIP \in {HeaderEntries[h][k] : k \in DOMAIN HeaderEntries[h]}

\* the label is X-Client-IP, and the address is the entry of that header
\* without the blank that follows it there
C26_Witness ==
    /\ op = "ExtractClientIP"
    /\ ret.DetectedVia = "X-Client-IP"
    /\ Get(Header, "X-Client-IP") = <<"i", "n", "v", "a", "l", "i", "d", ",", " ", "1", "9", "2", ".", "1", "6", "8", ".", "1", ".", "1", " ">>
    /\ ret.ClientIP = <<"1", "9", "2", ".", "1", "6", "8", ".", "1", ".", "1">>

\* ------------------------------------------------------------------------
\* C27
\* ------------------------------------------------------------------------

\* C27: in the record of GetInfo the label CF-Connecting-IP and the label
\* True-Client-IP come with IsCloudflare = true
C27_LabelAndFlag ==
    (op = "GetInfo" /\ ret.DetectedVia \in {"CF-Connecting-IP", "True-Client-IP"}) =>
        ret.IsCloudflare = TRUE

\* the label is True-Client-IP behind a CF-Connecting-IP that is no
\* address, without CF-Ray, and the flag is set
C27_Witness ==
    /\ op = "GetInfo"
    /\ ret.DetectedVia = "True-Client-IP"
    /\ Header["CF-Connecting-IP"] = << <<"g", "a", "r", "b", "a", "g", "e">> >>
    /\ Header["CF-Ray"] = <<>>
    /\ ret.IsCloudflare = TRUE

\* ------------------------------------------------------------------------
\* C28
\* ------------------------------------------------------------------------

\* the values of a header that is not in the table: none, one, another
OtherValues ==
    { <<>>,
      << <<"8", "f", "3", "a", "-", "S", "I", "N">> >>,
      << <<"2", "0", "3", ".", "0", ".", "1", "1", "3", ".", "9">> >> }

\* header maps that differ in CF-Ray and User-Agent only
WithOthers(header, ray, agent) ==
    [header EXCEPT !["CF-Ray"] = ray, !["User-Agent"] = agent]

\* requests with varied priority headers, with and without other
\* headers, from a peer with an address and from one without
InitInfluence ==
    /\ InitTables
    /\ \E h \in Requests(MaxPeerPieces, PiecePool), ray \in OtherValues, agent \in OtherValues :
          /\ <<>> \in {ray, agent} \/ ray # agent
          /\ ray = <<>> \/ agent # <<>>
          /\ Header = WithOthers(h, ray, agent)
    /\ RemoteAddr \in {DefaultPeer, <<"m", "a", "l", "f", "o", "r", "m", "e", "d", "-", "a", "d", "d", "r">>}
    /\ Query = NoQuery
    /\ w = NewRecorder
    /\ arg = <<>>
    /\ slice = NilSlice
    /\ calls = <<>>
    /\ op = ""
    /\ ret = NoResult

SpecInfluence == InitInfluence /\ [][Next]_vars

\* the request with another peer address, and with other values of the
\* headers that are not in the table
OtherPeer(peer) == [Request EXCEPT !.RemoteAddr = peer]
OtherRest(ray, agent) == [Request EXCEPT !.Header = WithOthers(Header, ray, agent)]

\* C28: a request with the same nine priority headers and another peer
\* address gives the same result of ExtractClientIP whenever a priority
\* header holds a valid entry; a request with the same nine priority
\* headers and the same peer address gives the same results of
\* ExtractClientIP, FindIPv4 and FindIPv6 whatever its other headers are
C28_Influence ==
    /\ (op = "ExtractClientIP" /\ RanksWith(HeaderEntries, IsValid) # {}) =>
          \A peer \in RemotePool :
              ExtractClientIP(OtherPeer(peer)) = [ip |-> ret.ClientIP, via |-> ret.DetectedVia]
    /\ op = "ExtractClientIP" =>
          \A ray \in OtherValues, agent \in OtherValues :
              ExtractClientIP(OtherRest(ray, agent)) = [ip |-> ret.ClientIP, via |-> ret.DetectedVia]
    /\ op = "FindIPv4" =>
          \A ray \in OtherValues, agent \in OtherValues :
              FindIPv4(OtherRest(ray, agent)) = ret.IPv4Address
    /\ op = "FindIPv6" =>
          \A ray \in OtherValues, agent \in OtherValues :
              FindIPv6(OtherRest(ray, agent)) = ret.IPv6Address

\* ExtractClientIP has returned the address of X-Forwarded-For for a
\* request without CF-Ray, whose peer address is another address
C28_Witness ==
    /\ op = "ExtractClientIP"
    /\ Get(Header, "X-Forwarded-For") = <<"2", "0", "3", ".", "0", ".", "1", "1", "3", ".", "1">>
    /\ Header["CF-Ray"] = <<>>
    /\ Header["User-Agent"] # <<>>
    /\ RemoteAddr = DefaultPeer
    /\ ret.ClientIP = <<"2", "0", "3", ".", "0", ".", "1", "1", "3", ".", "1">>
    /\ ret.DetectedVia = "X-Forwarded-For"

\* ------------------------------------------------------------------------
\* C29
\* ------------------------------------------------------------------------

\* the values of the first occurrence of a repeated header: an empty one,
\* a word, an IPv6 address, an IPv4 address
FirstValues ==
    { <<>>,
      <<"i", "n", "v", "a", "l", "i", "d">>,
      <<"2", "0", "0", "1", ":", "d", "b", "8", ":", ":", "1">>,
      <<"2", "0", "3", ".", "0", ".", "1", "1", "3", ".", "1">> }

\* the later occurrences: one with an IPv4 address, one with an IPv6
\* address, one with a list, and two occurrences
LaterValues ==
    { << <<"1", "9", "8", ".", "5", "1", ".", "1", "0", "0", ".", "9">> >>,
      << <<"2", "0", "0", "1", ":", "d", "b", "8", ":", ":", "9">> >>,
      << <<"i", "n", "v", "a", "l", "i", "d", ",", " ", "1", "9", "8", ".", "5", "1", ".", "1", "0", "0", ".", "9">> >>,
      << <<"2", "0", "0", "1", ":", "d", "b", "8", ":", ":", "9">>,
         <<"1", "9", "8", ".", "5", "1", ".", "1", "0", "0", ".", "9">> >> }

\* requests in which one priority header occurs more than once, with and
\* without a header below it
InitRepeated ==
    /\ InitTables
    /\ \E a \in {1, 4}, b \in {5, 9}, first \in FirstValues, later \in LaterValues,
          lo \in {<<>>, << PiecePool[2] >>} :
          Header = [name \in HeaderNames |->
                      IF name = headerPriorityInit[a] THEN <<first>> \o later
                      ELSE IF name = headerPriorityInit[b] THEN lo
                      ELSE <<>>]
    /\ RemoteAddr \in {DefaultPeer, <<"m", "a", "l", "f", "o", "r", "m", "e", "d", "-", "a", "d", "d", "r">>}
    /\ Query = NoQuery
    /\ w = NewRecorder
    /\ arg = <<>>
    /\ slice = NilSlice
    /\ calls = <<>>
    /\ op = ""
    /\ ret = NoResult

SpecRepeated == InitRepeated /\ [][Next]_vars

\* the request with the first occurrence of every header name only
FirstOccurrences ==
    [Request EXCEPT !.Header =
        [name \in DOMAIN Header |->
            IF Header[name] = <<>> THEN <<>> ELSE << Header[name][1] >>]]

\* the trimmed entries of the occurrences of the priority headers from
\* the from-th to the to-th
EntriesOfOccurrences(from, to) ==
    UNION { UNION { LET pieces == Split(Header[PriorityTable[h]][i], ",")
                    IN  {TrimSpace(pieces[k]) : k \in DOMAIN pieces} :
                    i \in {j \in DOMAIN Header[PriorityTable[h]] : from <= j /\ j <= to} } :
            h \in 1..Len(PriorityTable) }

\* the addresses that stand in a later occurrence of a header name and
\* nowhere else in the request
LaterOnly ==
    {e \in EntriesOfOccurrences(2, 3) : IsValid(e)}
        \ (EntriesOfOccurrences(1, 1) \cup {PeerHost(RemoteAddr)})

\* C29: when a priority header name occurs more than once, ExtractClientIP,
\* FindIPv4 and FindIPv6 return what they return for the request with the
\* first occurrence of each name alone, and never an address that stands
\* only in a later occurrence
C29_FirstOccurrenceOnly ==
    /\ op = "ExtractClientIP" =>
          /\ ExtractClientIP(FirstOccurrences) = [ip |-> ret.ClientIP, via |-> ret.DetectedVia]
          /\ ret.ClientIP \notin LaterOnly
    /\ op = "FindIPv4" =>
          /\ FindIPv4(FirstOccurrences) = ret.IPv4Address
          /\ ret.IPv4Address \notin LaterOnly
    /\ op = "FindIPv6" =>
          /\ FindIPv6(FirstOccurrences) = ret.IPv6Address
          /\ ret.IPv6Address \notin LaterOnly

\* CF-Connecting-IP occurs twice, with a word and then with an address:
\* the address is not taken, and the scan goes on to X-Client-IP
C29_Witness ==
    /\ op = "ExtractClientIP"
    /\ Header["CF-Connecting-IP"] =
          << <<"i", "n", "v", "a", "l", "i", "d">>,
             <<"1", "9", "8", ".", "5", "1", ".", "1", "0", "0", ".", "9">> >>
    /\ <<"1", "9", "8", ".", "5", "1", ".", "1", "0", "0", ".", "9">> \in LaterOnly
    /\ ret.DetectedVia = "X-Client-IP"
    /\ ret.ClientIP = <<"1", "9", "2", ".", "1", "6", "8", ".", "1", ".", "1">>

\* ------------------------------------------------------------------------
\* C30
\* ------------------------------------------------------------------------

\* the octets of the IPv4 addresses that are written in IPv6 notation:
\* in and next to the private networks
MappedOctets ==
    { <<10, 0, 0, 1>>, <<8, 8, 8, 8>>, <<172, 16, 0, 1>>, <<172, 32, 0, 1>>,
      <<192, 168, 1, 1>>, <<127, 0, 0, 1>>, <<203, 0, 113, 1>> }

\* the ways to write the 96 bits in front of them
MappedPrefixes ==
    { <<":", ":", "f", "f", "f", "f", ":">>,
      <<":", ":", "F", "F", "F", "F", ":">>,
      <<"0", ":", "0", ":", "0", ":", "0", ":", "0", ":", "f", "f", "f", "f", ":">> }

\* the candidates: the IPv4 addresses in IPv6 notation, 10.0.0.1 with
\* its last 32 bits in hexadecimal, and next to them two IPv6 addresses
\* that end in a dotted quad and have no 4-byte form, an IPv6 address and
\* a dotted quad
MappedPool ==
    {prefix \o IPv4String(o) : prefix \in MappedPrefixes, o \in MappedOctets} \cup
    { <<":", ":", "f", "f", "f", "f", ":", "a", "0", "0", ":", "1">>,
      <<":", ":", "f", "f", "f", "e", ":", "1", "0", ".", "0", ".", "0", ".", "1">>,
      <<":", ":", "1", "0", ".", "0", ".", "0", ".", "1">>,
      <<"2", "0", "0", "1", ":", "d", "b", "8", ":", ":", "1">>,
      <<"1", "0", ".", "0", ".", "0", ".", "1">> }

\* requests with a candidate alone or next to another entry in
\* X-Forwarded-For, or as the peer address with and without a port, and
\* the candidate as the string for IsValid and IsPrivate
InitMapped ==
    /\ InitTables
    /\ \E a \in MappedPool,
          b \in {<<>>, <<"2", "0", "0", "1", ":", "d", "b", "8", ":", ":", "1">>,
                 <<"2", "0", "3", ".", "0", ".", "1", "1", "3", ".", "1">>},
          place \in {"first", "second", "peer", "raw peer"} :
          /\ arg = a
          /\ Header = [NoHeaders EXCEPT !["X-Forwarded-For"] =
                         CASE b = <<>> /\ place \in {"first", "second"} -> << a >>
                           [] b # <<>> /\ place = "first"  -> << a \o <<",", " ">> \o b >>
                           [] b # <<>> /\ place = "second" -> << b \o <<",">> \o a >>
                           [] OTHER -> IF b = <<>> THEN <<>> ELSE << b >>]
          /\ RemoteAddr = CASE place = "peer" -> <<"[">> \o a \o <<"]", ":", "8", "0", "8", "0">>
                            [] place = "raw peer" -> a
                            [] OTHER -> DefaultPeer
    /\ Query = NoQuery
    /\ w = NewRecorder
    /\ slice = NilSlice
    /\ calls = <<>>
    /\ op = ""
    /\ ret = NoResult

SpecMapped == InitMapped /\ [][Next]_vars

\* s is written in IPv6 notation and has a 4-byte form
IsMapped(s) == IsV4(s) /\ \E k \in DOMAIN s : s[k] = ":"

\* C30: FindIPv4 returns an address in IPv6 notation that has a 4-byte
\* form when it is the first entry with such a form, as it is written;
\* FindIPv6 never returns one; IsPrivate of one is what the IPv4 table
\* gives for its last four bytes
C30_MappedIsIPv4 ==
    /\ op = "FindIPv4" =>
          /\ \A h \in DOMAIN HeaderEntries : \A k \in DOMAIN HeaderEntries[h] :
                (FirstPlace(HeaderEntries, IsV4, h, k) /\ IsMapped(HeaderEntries[h][k])) =>
                    ret.IPv4Address = HeaderEntries[h][k]
          /\ (RanksWith(HeaderEntries, IsV4) = {} /\ IsMapped(PeerHost(RemoteAddr))) =>
                ret.IPv4Address = PeerHost(RemoteAddr)
    /\ op = "FindIPv6" => ~IsMapped(ret.IPv6Address)
    /\ op = "IsPrivate" =>
          /\ \A prefix \in MappedPrefixes, o \in MappedOctets :
                arg = prefix \o IPv4String(o) => ret.IsPrivateIP = InPrivateV4(o)
          /\ arg = <<":", ":", "f", "f", "f", "f", ":", "1", "0", ".", "0", ".", "0", ".", "1">>
                => ret.IsPrivateIP = TRUE
          /\ arg = <<":", ":", "f", "f", "f", "f", ":", "8", ".", "8", ".", "8", ".", "8">>
                => ret.IsPrivateIP = FALSE
          /\ arg = <<":", ":", "f", "f", "f", "f", ":", "a", "0", "0", ":", "1">>
                => ret.IsPrivateIP = TRUE

\* FindIPv4 has returned "::ffff:10.0.0.1", the second entry of
\* X-Forwarded-For behind an IPv6 address, as it is written
C30_Witness ==
    /\ op = "FindIPv4"
    /\ Get(Header, "X-Forwarded-For") =
          <<"2", "0", "0", "1", ":", "d", "b", "8", ":", ":", "1", ",",
            ":", ":", "f", "f", "f", "f", ":", "1", "0", ".", "0", ".", "0", ".", "1">>
    /\ IsMapped(ret.IPv4Address)
    /\ ret.IPv4Address = <<":", ":", "f", "f", "f", "f", ":", "1", "0", ".", "0", ".", "0", ".", "1">>
====
